---- MODULE Spec2Model ----
(***************************************************************************)
(* The Glass type tree (crates/lib/glass-parser/src/type_tree): programs   *)
(* are registered, their schema and enum definitions are collected into    *)
(* nodes, schema references are resolved into dependency sets, and the     *)
(* dependency graph and the import graph are searched for cycles.  With it *)
(* the Rust generator that is run on a tree (crates/lib/glass-codegen) and *)
(* the framing of the messages of a stream (crates/lib/glass-transport).   *)
(*                                                                         *)
(* Strings are TLA+ strings, Vec<T> is a sequence, HashSet<T> a set and    *)
(* HashMap<K, V> a function.  Option<T> is the empty sequence (None) or a  *)
(* one-element sequence (Some).  The iteration order of a HashMap or a     *)
(* HashSet is not specified: every operator that iterates one returns the  *)
(* set of the results of all orders.                                       *)
(***************************************************************************)
EXTENDS Integers, Sequences, FiniteSets, TLC

VARIABLES
    tree,            \* the TypeTree a constructor returned (New before, and after an Err)
    result,          \* what the last constructor call returned
    input,           \* the batch of (Program, Option<String>) handed to the constructor
    first,           \* what the first of two constructions of the same batch returned
    imports_result,  \* what validate_imports returned on the tree
    added,           \* the add_program_with_path calls made on the tree, with their results
    generated,       \* what the Rust generator made of the tree and the named programs
    wire,            \* the bytes written to a bidirectional stream and not yet read
    sent,            \* the messages written to the stream, in order
    reading,         \* the local variables of the read_message call of the stream's task
    received         \* what the read_message calls of the task returned, in order

stream_vars == <<wire, sent, reading, received>>

vars == <<tree, result, input, first, imports_result, added, generated, stream_vars>>

----------------------------------------------------------------------------
(* Option<T> *)

None == <<>>

Some(v) == <<v>>

IsSome(o) == Len(o) = 1

Unwrap(o) == o[1]

(* HashMap<K, V> *)

EmptyMap == [k \in {} |-> k]

ContainsKey(m, k) == k \in DOMAIN m

Insert(m, k, v) == [x \in (DOMAIN m) \cup {k} |-> IF x = k THEN v ELSE m[x]]

Get(m, k) == IF k \in DOMAIN m THEN Some(m[k]) ELSE None

(* Vec<T> *)

Contains(seq, x) == \E i \in 1..Len(seq) : seq[i] = x

(* str *)

RECURSIVE Join(_, _)
Join(parts, sep) ==
    IF Len(parts) = 0 THEN ""
    ELSE IF Len(parts) = 1 THEN parts[1]
    ELSE parts[1] \o sep \o Join(Tail(parts), sep)

StartsWith(s, prefix) ==
    /\ Len(s) >= Len(prefix)
    /\ SubSeq(s, 1, Len(prefix)) = prefix

StripPrefix(s, prefix) ==
    IF StartsWith(s, prefix) THEN Some(SubSeq(s, Len(prefix) + 1, Len(s))) ELSE None

\* The positions of the character c in s.
Positions(s, c) == {i \in 1..Len(s) : SubSeq(s, i, i) = c}

Max(S) == CHOOSE x \in S : \A y \in S : y <= x

\* str::rsplit_once: the text before and after the last c, None without a c.
RsplitOnce(s, c) ==
    IF Positions(s, c) = {} THEN None
    ELSE LET i == Max(Positions(s, c))
         IN  Some(<<SubSeq(s, 1, i - 1), SubSeq(s, i + 1, Len(s))>>)

----------------------------------------------------------------------------
(* The AST (ast/mod.rs) *)

Primitive == [kind |-> "Primitive"]

Option(inner) == [kind |-> "Option", inner |-> inner]

Vec(inner) == [kind |-> "Vec", inner |-> inner]

\* package is an Option of the segments of a PackagePath
SchemaRef(package, name) == [kind |-> "SchemaRef", package |-> package, name |-> name]

SchemaDef(name, fields) == [kind |-> "Schema", name |-> name, fields |-> fields]

EnumDef(name) == [kind |-> "Enum", name |-> name, fields |-> <<>>]

ServiceDef(name) == [kind |-> "Service", name |-> name, fields |-> <<>>]

Program(package, imports, definitions) ==
    [package |-> package, imports |-> imports, definitions |-> definitions]

\* program.package.as_ref().map(|p| p.path.to_string()).unwrap_or_default()
PackageName(program) ==
    IF IsSome(program.package) THEN Join(Unwrap(program.package), ".") ELSE ""

\* if package_name.is_empty() { name } else { format!("{}.{}", package_name, name) }
QualifiedName(package_name, name) ==
    IF package_name = "" THEN name ELSE package_name \o "." \o name

----------------------------------------------------------------------------
(* TypeTree (type_tree/models.rs) *)

TypeNode(qualified_name, definition, dependencies) ==
    [qualified_name |-> qualified_name, definition |-> definition,
     dependencies |-> dependencies]

ProgramInfo(program, file_path, package_name) ==
    [program |-> program, file_path |-> file_path, package_name |-> package_name]

New ==
    [nodes |-> EmptyMap, file_to_package |-> EmptyMap, package_to_programs |-> EmptyMap,
     programs |-> <<>>, import_graph |-> EmptyMap, file_to_types |-> EmptyMap]

(* Errors (type_tree/errors.rs) *)

NoError == [kind |-> "None"]

TypeNotFound(name) == [kind |-> "TypeNotFound", name |-> name]

CircularDependency(path) == [kind |-> "CircularDependency", path |-> path]

TypeNotAccessible(type_name, from_file) ==
    [kind |-> "TypeNotAccessible", type_name |-> type_name, from_file |-> from_file]

CircularImport(cycle) == [kind |-> "CircularImport", cycle |-> cycle]

FileNotFound(import_path, from_file, resolved_path) ==
    [kind |-> "FileNotFound", import_path |-> import_path, from_file |-> from_file,
     resolved_path |-> resolved_path]

(* Result<T, TypeTreeError>: a record with err, NoError for Ok *)

\* let value = ..; the rest of the block reads the value under its name
Bind(value, Rest(_)) == Rest(value)

\* the ? operator: an Err is returned as it is, the rest goes on with an Ok
Try(r, Rest(_)) == IF r.err # NoError THEN r ELSE Rest(r)

----------------------------------------------------------------------------
(* imports.rs *)

\* std::path::Path::parent of a relative or absolute file path, as a string
Parent(path) ==
    IF Positions(path, "/") = {} THEN ""
    ELSE LET i == Max(Positions(path, "/"))
         IN  IF i = 1 THEN "/" ELSE SubSeq(path, 1, i - 1)

ResolveImportPath(importing_file, import_path) ==
    IF IsSome(StripPrefix(import_path, "/")) THEN Unwrap(StripPrefix(import_path, "/"))
    ELSE IF StartsWith(import_path, "../") \/ StartsWith(import_path, "./")
    THEN LET parent_dir == Parent(importing_file)
         IN  IF parent_dir = "" THEN import_path
             ELSE parent_dir \o "/" \o import_path
    ELSE import_path

----------------------------------------------------------------------------
(* core.rs: registration and the first pass *)

RECURSIVE ResolveImports(_, _)
\* for import in &program.imports { imported_files.push(resolve_import_path(..)) }
ResolveImports(file_path, imports) ==
    IF Len(imports) = 0 THEN <<>>
    ELSE <<ResolveImportPath(file_path, imports[1].path)>>
             \o ResolveImports(file_path, Tail(imports))

\* entry(package_name).or_default().push(program_index)
PushProgramIndex(package_to_programs, package_name, program_index) ==
    Insert(package_to_programs, package_name,
           (IF ContainsKey(package_to_programs, package_name)
            THEN package_to_programs[package_name] ELSE <<>>) \o <<program_index>>)

\* One round of the first loop of from_programs_with_paths.
RegisterProgram(t, program, file_path) ==
    LET program_index == Len(t.programs)
        package_name == PackageName(program)
        with_program ==
            [t EXCEPT !.programs =
                 Append(@, ProgramInfo(program, file_path, Some(package_name)))]
        with_file ==
            IF IsSome(file_path)
            THEN [with_program EXCEPT
                     !.file_to_package = Insert(@, Unwrap(file_path), package_name),
                     !.import_graph =
                         Insert(@, Unwrap(file_path),
                                ResolveImports(Unwrap(file_path), program.imports))]
            ELSE with_program
    IN  [with_file EXCEPT
            !.package_to_programs = PushProgramIndex(@, package_name, program_index)]

RECURSIVE RegisterPrograms(_, _)
RegisterPrograms(t, programs_with_paths) ==
    IF Len(programs_with_paths) = 0 THEN t
    ELSE RegisterPrograms(
             RegisterProgram(t, programs_with_paths[1][1], programs_with_paths[1][2]),
             Tail(programs_with_paths))

\* The file path collect_types_from_program gives a program: that of the first
\* registered program with the same package and the same number of definitions.
FilePathOfProgram(t, program) ==
    LET matching == {i \in 1..Len(t.programs) :
                        /\ PackageName(t.programs[i].program) = PackageName(program)
                        /\ Len(t.programs[i].program.definitions) = Len(program.definitions)}
    IN  IF matching = {} THEN None
        ELSE t.programs[CHOOSE i \in matching : \A j \in matching : i <= j].file_path

RECURSIVE CollectDefinitions(_, _, _, _)
\* CollectDefinitions that makes a node of a service as well.
CollectDefinitionsAndServices(nodes, file_types, package_name, definitions) ==
    IF Len(definitions) = 0 THEN [nodes |-> nodes, file_types |-> file_types]
    ELSE CollectDefinitions(
             Insert(nodes, QualifiedName(package_name, definitions[1].name),
                    TypeNode(QualifiedName(package_name, definitions[1].name),
                             definitions[1], {})),
             Append(file_types, QualifiedName(package_name, definitions[1].name)),
             package_name, Tail(definitions))

\* The loop over program.definitions: the nodes and the file_types it leaves.
CollectDefinitions(nodes, file_types, package_name, definitions) ==
    IF Len(definitions) = 0 THEN [nodes |-> nodes, file_types |-> file_types]
    ELSE LET definition == definitions[1]
             qualified_name == QualifiedName(package_name, definition.name)
         IN  IF definition.kind = "Service"
             THEN CollectDefinitions(nodes, file_types, package_name, Tail(definitions))
             ELSE CollectDefinitions(
                      Insert(nodes, qualified_name,
                             TypeNode(qualified_name, definition, {})),
                      Append(file_types, qualified_name),
                      package_name, Tail(definitions))

CollectTypesFromProgram(t, program) ==
    LET file_path == FilePathOfProgram(t, program)
        collected == CollectDefinitions(t.nodes, <<>>, PackageName(program),
                                        program.definitions)
        with_nodes == [t EXCEPT !.nodes = collected.nodes]
    IN  IF IsSome(file_path)
        THEN [with_nodes EXCEPT
                 !.file_to_types = Insert(@, Unwrap(file_path), collected.file_types)]
        ELSE with_nodes

RECURSIVE CollectTypes(_, _)
\* for program_info in &programs { tree.collect_types_from_program(..)? }
CollectTypes(t, programs) ==
    IF Len(programs) = 0 THEN t
    ELSE CollectTypes(CollectTypesFromProgram(t, programs[1].program), Tail(programs))

----------------------------------------------------------------------------
(* resolution.rs *)

ExtractPackageFromQualifiedName(qualified_name) ==
    IF IsSome(RsplitOnce(qualified_name, "."))
    THEN Unwrap(RsplitOnce(qualified_name, "."))[1]
    ELSE ""

\* IsTypeAccessible without the loop over the imported files.
IsTypeAccessibleSamePackage(t, from_file, qualified_type_name) ==
    /\ ContainsKey(t.file_to_package, from_file)
    /\ t.file_to_package[from_file] = ExtractPackageFromQualifiedName(qualified_type_name)

IsTypeAccessible(t, from_file, qualified_type_name) ==
    LET type_package == ExtractPackageFromQualifiedName(qualified_type_name)
    IN  \/ /\ ContainsKey(t.file_to_package, from_file)
           /\ t.file_to_package[from_file] = type_package
        \/ /\ ContainsKey(t.import_graph, from_file)
           /\ \E i \in 1..Len(t.import_graph[from_file]) :
                  LET imported_file == t.import_graph[from_file][i]
                  IN  /\ ContainsKey(t.file_to_package, imported_file)
                      /\ t.file_to_package[imported_file] = type_package

\* A &Program is compared by address (std::ptr::eq).  An address is the index of
\* the ProgramInfo of t.programs it points into, or Elsewhere: a clone of the
\* program held outside the tree.
Elsewhere == 0

\* The file path of the program at the address, None for a program held elsewhere.
CurrentFile(t, address) ==
    IF address \in 1..Len(t.programs) THEN t.programs[address].file_path ELSE None

RECURSIVE ImportedCandidates(_, _, _)
\* for (name, _node) in &self.nodes { if type_package == package { insert } }
TypesOfPackage(t, package) ==
    {name \in DOMAIN t.nodes : ExtractPackageFromQualifiedName(name) = package}

\* the imported files of a file that have a package
ImportedFilesWithPackage(t, from_file) ==
    IF ContainsKey(t.import_graph, from_file)
    THEN {t.import_graph[from_file][i] : i \in 1..Len(t.import_graph[from_file])}
             \cap DOMAIN t.file_to_package
    ELSE {}

\* GetReachableTypes that follows the imports of the imported files as well.
GetReachableTypesThroughImports(t, from_file) ==
    IF ContainsKey(t.file_to_package, from_file)
    THEN TypesOfPackage(t, t.file_to_package[from_file])
         \cup UNION {TypesOfPackage(t, t.file_to_package[imported_file])
                     \cup UNION {TypesOfPackage(t, t.file_to_package[beyond])
                                 : beyond \in ImportedFilesWithPackage(t, imported_file)}
                     : imported_file \in ImportedFilesWithPackage(t, from_file)}
    ELSE {}

GetReachableTypes(t, from_file) ==
    IF ContainsKey(t.file_to_package, from_file)
    THEN TypesOfPackage(t, t.file_to_package[from_file])
         \cup UNION {TypesOfPackage(t, t.file_to_package[imported_file])
                     : imported_file \in ImportedFilesWithPackage(t, from_file)}
    ELSE {}

\* The values find_file_for_type can return over the orders in which
\* file_to_package is iterated: a file of the package of the name whose
\* types hold the name, None when there is no such file.
FindFileForType(t, qualified_name) ==
    Bind({file_path \in DOMAIN t.file_to_package :
              /\ t.file_to_package[file_path]
                     = ExtractPackageFromQualifiedName(qualified_name)
              /\ ContainsKey(t.file_to_types, file_path)
              /\ Contains(t.file_to_types[file_path], qualified_name)},
         LAMBDA files : IF files = {} THEN {None}
                        ELSE {Some(file_path) : file_path \in files})

\* The names format!("{}.{}", import_package, name) of the files of the list that
\* have a package in file_to_package, in the order of the list.
ImportedCandidates(t, files, name) ==
    IF Len(files) = 0 THEN <<>>
    ELSE (IF ContainsKey(t.file_to_package, files[1])
          THEN <<t.file_to_package[files[1]] \o "." \o name>>
          ELSE <<>>)
         \o ImportedCandidates(t, Tail(files), name)

RECURSIVE ImportPaths(_)
ImportPaths(imports) ==
    IF Len(imports) = 0 THEN <<>> ELSE <<imports[1].path>> \o ImportPaths(Tail(imports))

\* ResolveUnqualifiedReference that tries the root level before the local
\* package.
ResolveUnqualifiedReferenceRootFirst(t, schema_ref, current_program, current_file) ==
    IF ContainsKey(t.nodes, schema_ref.name)
    THEN [err |-> NoError, name |-> schema_ref.name]
    ELSE IF PackageName(current_program) # ""
            /\ ContainsKey(t.nodes, PackageName(current_program) \o "." \o schema_ref.name)
    THEN [err |-> NoError, name |-> PackageName(current_program) \o "." \o schema_ref.name]
    ELSE [err |-> TypeNotFound(schema_ref.name), name |-> ""]

\* The unqualified branch of resolve_schema_reference: the local package, the
\* root level, then the packages of the imported files.
ResolveUnqualifiedReference(t, schema_ref, current_program, current_file) ==
    LET current_package == PackageName(current_program)
        local_qualified == current_package \o "." \o schema_ref.name
        local_attempt == IF current_package # "" THEN <<local_qualified>> ELSE <<>>
        imported ==
            IF IsSome(current_file)
            THEN IF ContainsKey(t.import_graph, Unwrap(current_file))
                 THEN ImportedCandidates(t, t.import_graph[Unwrap(current_file)],
                                         schema_ref.name)
                 ELSE <<>>
            ELSE ImportedCandidates(t, ImportPaths(current_program.imports),
                                    schema_ref.name)
        found == {i \in 1..Len(imported) : ContainsKey(t.nodes, imported[i])}
        attempted_paths == local_attempt \o <<schema_ref.name>> \o imported
    IN  IF current_package # "" /\ ContainsKey(t.nodes, local_qualified)
        THEN [err |-> NoError, name |-> local_qualified]
        ELSE IF ContainsKey(t.nodes, schema_ref.name)
        THEN [err |-> NoError, name |-> schema_ref.name]
        ELSE IF found # {}
        THEN [err |-> NoError,
              name |-> imported[CHOOSE i \in found : \A j \in found : i <= j]]
        ELSE [err |-> TypeNotFound(schema_ref.name \o " (tried: "
                                   \o Join(attempted_paths, ", ") \o ")"),
              name |-> ""]

\* ResolveQualifiedReference without the lookup of the name in nodes.
ResolveQualifiedReferenceUnverified(t, qualified_name, current_file) ==
    IF IsSome(current_file)
       /\ ~IsTypeAccessible(t, Unwrap(current_file), qualified_name)
    THEN [err |-> TypeNotAccessible(qualified_name, Unwrap(current_file)), name |-> ""]
    ELSE [err |-> NoError, name |-> qualified_name]

\* The end of resolve_schema_reference, which only a qualified reference
\* reaches: the type exists and is accessible from the current file.
ResolveQualifiedReference(t, qualified_name, current_file) ==
    IF ~ContainsKey(t.nodes, qualified_name)
    THEN [err |-> TypeNotFound(qualified_name), name |-> ""]
    ELSE IF IsSome(current_file)
            /\ ~IsTypeAccessible(t, Unwrap(current_file), qualified_name)
    THEN [err |-> TypeNotAccessible(qualified_name, Unwrap(current_file)), name |-> ""]
    ELSE [err |-> NoError, name |-> qualified_name]

\* Ok(name) is [err |-> NoError, name |-> name]; Err(e) is [err |-> e, name |-> ""].
ResolveSchemaReference(t, schema_ref, current_program, address) ==
    IF IsSome(schema_ref.package)
    THEN ResolveQualifiedReference(
             t, Join(Unwrap(schema_ref.package), ".") \o "." \o schema_ref.name,
             CurrentFile(t, address))
    ELSE ResolveUnqualifiedReference(t, schema_ref, current_program,
                                     CurrentFile(t, address))

RECURSIVE ValidateTypeReference(_, _, _, _, _, _)
\* ValidateTypeReference without the test against the reachable types.
ValidateTypeReferenceResolvedOnly(t, type_value, current_program, address, reachable_types, current_file) ==
    IF type_value.kind = "Primitive" THEN NoError
    ELSE IF type_value.kind \in {"Option", "Vec"}
    THEN ValidateTypeReference(t, type_value.inner, current_program, address,
                               reachable_types, current_file)
    ELSE ResolveSchemaReference(t, type_value, current_program, address).err

\* validate_type_reference: NoError for Ok(()), else the error.
ValidateTypeReference(t, type_value, current_program, address, reachable_types, current_file) ==
    IF type_value.kind = "Primitive" THEN NoError
    ELSE IF type_value.kind \in {"Option", "Vec"}
    THEN ValidateTypeReference(t, type_value.inner, current_program, address,
                               reachable_types, current_file)
    ELSE Bind(ResolveSchemaReference(t, type_value, current_program, address),
              LAMBDA resolved :
                  IF resolved.err # NoError THEN resolved.err
                  ELSE IF /\ reachable_types # {}
                          /\ resolved.name \notin reachable_types
                          /\ IsSome(current_file)
                  THEN TypeNotAccessible(resolved.name, Unwrap(current_file))
                  ELSE NoError)

RECURSIVE ValidateFields(_, _, _, _, _, _)
\* for field in &schema.fields: the errors pushed, in order.
ValidateFields(t, fields, program, address, reachable_types, file_path) ==
    IF Len(fields) = 0 THEN <<>>
    ELSE Bind(ValidateTypeReference(t, fields[1], program, address,
                                    reachable_types, file_path),
              LAMBDA err : IF err # NoError THEN <<err>> ELSE <<>>)
         \o ValidateFields(t, Tail(fields), program, address, reachable_types, file_path)

RECURSIVE ValidateDefinitions(_, _, _, _, _, _)
\* for definition in &program.definitions: the errors pushed, in order.
ValidateDefinitions(t, definitions, program, address, reachable_types, file_path) ==
    IF Len(definitions) = 0 THEN <<>>
    ELSE (IF definitions[1].kind = "Schema"
          THEN ValidateFields(t, definitions[1].fields, program, address,
                              reachable_types, file_path)
          ELSE <<>>)
         \o ValidateDefinitions(t, Tail(definitions), program, address,
                                reachable_types, file_path)

\* validate_type_references(program) for the program at the address: <<>> for
\* Ok(()), else the errors of Err(errors).
ValidateTypeReferences(t, program, address) ==
    ValidateDefinitions(t, program.definitions, program, address,
                        IF IsSome(CurrentFile(t, address))
                        THEN GetReachableTypes(t, Unwrap(CurrentFile(t, address)))
                        ELSE {},
                        CurrentFile(t, address))

RECURSIVE CollectTypeDependencies(_, _, _, _, _)
\* CollectTypeDependencies that does not look into a Vec.
CollectTypeDependenciesVecOpaque(t, type_value, current_program, address, dependencies) ==
    IF type_value.kind = "Primitive" \/ type_value.kind = "Vec"
    THEN [err |-> NoError, dependencies |-> dependencies]
    ELSE IF type_value.kind = "Option"
    THEN CollectTypeDependencies(t, type_value.inner, current_program, address, dependencies)
    ELSE Bind(ResolveSchemaReference(t, type_value, current_program, address),
              LAMBDA resolved :
                  IF resolved.err # NoError
                  THEN [err |-> resolved.err, dependencies |-> dependencies]
                  ELSE [err |-> NoError,
                        dependencies |-> dependencies \cup {resolved.name}])

\* Ok(()) with the dependencies set it leaves, or the Err of the resolution.
CollectTypeDependencies(t, type_value, current_program, address, dependencies) ==
    IF type_value.kind = "Primitive"
    THEN [err |-> NoError, dependencies |-> dependencies]
    ELSE IF type_value.kind = "Option"
    THEN CollectTypeDependencies(t, type_value.inner, current_program, address, dependencies)
    ELSE IF type_value.kind = "Vec"
    THEN CollectTypeDependencies(t, type_value.inner, current_program, address, dependencies)
    ELSE Bind(ResolveSchemaReference(t, type_value, current_program, address),
              LAMBDA resolved :
                  IF resolved.err # NoError
                  THEN [err |-> resolved.err, dependencies |-> dependencies]
                  ELSE [err |-> NoError,
                        dependencies |-> dependencies \cup {resolved.name}])

----------------------------------------------------------------------------
(* core.rs: the second pass and the cycle check *)

RECURSIVE CollectFieldDependencies(_, _, _, _, _)
\* for field in &schema.fields { self.collect_type_dependencies(..)? }
CollectFieldDependencies(t, fields, current_program, address, dependencies) ==
    IF Len(fields) = 0 THEN [err |-> NoError, dependencies |-> dependencies]
    ELSE Try(CollectTypeDependencies(t, fields[1], current_program, address,
                                     dependencies),
             LAMBDA collected :
                 CollectFieldDependencies(t, Tail(fields), current_program, address,
                                          collected.dependencies))

RECURSIVE BuildDefinitions(_, _, _, _)
\* The loop over program.definitions: Ok(()) with the tree it leaves, or the Err.
BuildDefinitions(t, definitions, program, address) ==
    IF Len(definitions) = 0 THEN [err |-> NoError, tree |-> t]
    ELSE LET definition == definitions[1]
             qualified_name == QualifiedName(PackageName(program), definition.name)
         IN  IF definition.kind # "Schema"
             THEN BuildDefinitions(t, Tail(definitions), program, address)
             ELSE Bind(CollectFieldDependencies(t, definition.fields, program,
                                                address, {}),
                       LAMBDA collected :
                           IF collected.err # NoError
                           THEN [err |-> collected.err, tree |-> t]
                           ELSE BuildDefinitions(
                                    IF ContainsKey(t.nodes, qualified_name)
                                    THEN [t EXCEPT !.nodes[qualified_name].dependencies =
                                                       collected.dependencies]
                                    ELSE t,
                                    Tail(definitions), program, address))

BuildDependenciesFromProgram(t, program, address) ==
    BuildDefinitions(t, program.definitions, program, address)

RECURSIVE BuildDependencies(_, _)
\* for program_info in &programs { tree.build_dependencies_from_program(..)? }
\* programs is the clone of tree.programs: its programs are held Elsewhere.
BuildDependencies(t, programs) ==
    IF Len(programs) = 0 THEN [err |-> NoError, tree |-> t]
    ELSE Try(BuildDependenciesFromProgram(t, programs[1].program, Elsewhere),
             LAMBDA built : BuildDependencies(built.tree, Tail(programs)))

\* path.iter().position(|x| x == dependency).unwrap(), counted from 1
Position(path, x) == CHOOSE i \in 1..Len(path) :
                         /\ path[i] = x
                         /\ \A j \in 1..(i - 1) : path[j] # x

\* CycleError with the whole stack as the cycle, not its part from cycle_start.
CycleErrorWholePath(path, dependency) ==
    CircularDependency(Join(path, " -> ") \o " -> " \o dependency)

\* The error of the back edge to dependency, found with path on the stack.
CycleError(path, dependency) ==
    CircularDependency(
        Join(SubSeq(path, Position(path, dependency), Len(path)), " -> ")
            \o " -> " \o dependency)

RECURSIVE DetectCycleDfs(_, _, _, _, _)
RECURSIVE DependencyLoop(_, _, _, _, _)

\* The results of detect_cycle_dfs over the orders in which the HashSets of
\* dependencies are iterated: [err, visited], with rec_stack and path as the
\* caller had them when err is NoError.
DetectCycleDfs(t, node_name, visited, rec_stack, path) ==
    IF ContainsKey(t.nodes, node_name)
    THEN DependencyLoop(t, t.nodes[node_name].dependencies,
                        visited \cup {node_name}, rec_stack \cup {node_name},
                        Append(path, node_name))
    ELSE {[err |-> NoError, visited |-> visited \cup {node_name}]}

\* DependencyLoop without the test of rec_stack: a back edge is passed over.
DependencyLoopNoBackEdge(t, todo, visited, rec_stack, path) ==
    IF todo = {} THEN {[err |-> NoError, visited |-> visited]}
    ELSE UNION {
        LET after ==
                IF dependency \notin visited
                THEN DetectCycleDfs(t, dependency, visited, rec_stack, path)
                ELSE {[err |-> NoError, visited |-> visited]}
        IN  UNION {IF r.err # NoError THEN {r}
                   ELSE DependencyLoop(t, todo \ {dependency}, r.visited, rec_stack, path)
                   : r \in after}
        : dependency \in todo}

\* DependencyLoop with visited in the place of rec_stack: every edge to a node
\* seen before counts as a back edge.
DependencyLoopVisitedIsCycle(t, todo, visited, rec_stack, path) ==
    IF todo = {} THEN {[err |-> NoError, visited |-> visited]}
    ELSE UNION {
        LET after ==
                IF dependency \notin visited
                THEN DetectCycleDfs(t, dependency, visited, rec_stack, path)
                ELSE {[err |-> CycleErrorWholePath(path, dependency),
                       visited |-> visited]}
        IN  UNION {IF r.err # NoError THEN {r}
                   ELSE DependencyLoop(t, todo \ {dependency}, r.visited, rec_stack, path)
                   : r \in after}
        : dependency \in todo}

\* for dependency in &node.dependencies, with todo still to come
DependencyLoop(t, todo, visited, rec_stack, path) ==
    IF todo = {} THEN {[err |-> NoError, visited |-> visited]}
    ELSE UNION {
        LET after ==
                IF dependency \notin visited
                THEN DetectCycleDfs(t, dependency, visited, rec_stack, path)
                ELSE IF dependency \in rec_stack
                THEN {[err |-> CycleError(path, dependency), visited |-> visited]}
                ELSE {[err |-> NoError, visited |-> visited]}
        IN  UNION {IF r.err # NoError THEN {r}
                   ELSE DependencyLoop(t, todo \ {dependency}, r.visited, rec_stack, path)
                   : r \in after}
        : dependency \in todo}

RECURSIVE KeysLoop(_, _, _)

\* KeysLoop with a key that was visited from an earlier key reported as a cycle.
KeysLoopVisitedIsCycle(t, todo, visited) ==
    IF todo = {} THEN {NoError}
    ELSE UNION {
        IF qualified_name \in visited
        THEN {CircularDependency(qualified_name \o " -> " \o qualified_name)}
        ELSE UNION {IF r.err # NoError THEN {r.err}
                    ELSE KeysLoop(t, todo \ {qualified_name}, r.visited)
                    : r \in DetectCycleDfs(t, qualified_name, visited, {}, <<>>)}
        : qualified_name \in todo}

\* for qualified_name in self.nodes.keys(), with todo still to come
KeysLoop(t, todo, visited) ==
    IF todo = {} THEN {NoError}
    ELSE UNION {
        IF qualified_name \in visited
        THEN KeysLoop(t, todo \ {qualified_name}, visited)
        ELSE UNION {IF r.err # NoError THEN {r.err}
                    ELSE KeysLoop(t, todo \ {qualified_name}, r.visited)
                    : r \in DetectCycleDfs(t, qualified_name, visited, {}, <<>>)}
        : qualified_name \in todo}

\* ValidateNoCycles preceded by a check that every import leads to an
\* ingested file.
ValidateNoCyclesNorMissingImports(t) ==
    IF \E f \in DOMAIN t.import_graph :
           \E i \in 1..Len(t.import_graph[f]) :
               t.import_graph[f][i] \notin DOMAIN t.file_to_package
    THEN {TypeNotFound("import")}
    ELSE KeysLoop(t, DOMAIN t.nodes, {})

\* The results validate_no_cycles can return: NoError for Ok(()).
ValidateNoCycles(t) == KeysLoop(t, DOMAIN t.nodes, {})

RECURSIVE PassesInTurn(_, _)
\* Each program's types are collected and its dependencies built before the
\* next program is looked at.
PassesInTurn(t, programs) ==
    IF Len(programs) = 0 THEN [err |-> NoError, tree |-> t]
    ELSE Try(BuildDependenciesFromProgram(CollectTypesFromProgram(t, programs[1].program),
                                          programs[1].program, Elsewhere),
             LAMBDA built : PassesInTurn(built.tree, Tail(programs)))

\* SecondPass with the two passes made program by program.
SecondPassInTurn(programs_with_paths) ==
    Bind(RegisterPrograms(New, programs_with_paths),
         LAMBDA registered : PassesInTurn(registered, registered.programs))

\* The constructor up to the cycle check: registration and the two passes over
\* the clone of tree.programs.
SecondPass(programs_with_paths) ==
    Bind(RegisterPrograms(New, programs_with_paths),
         LAMBDA registered :
             BuildDependencies(CollectTypes(registered, registered.programs),
                               registered.programs))

\* The (tree, result) pairs the constructor can return; no tree comes with an Err.
FromProgramsWithPaths(programs_with_paths) ==
    Bind(SecondPass(programs_with_paths),
         LAMBDA built :
             IF built.err # NoError THEN {[tree |-> New, err |-> built.err]}
             ELSE {[tree |-> IF err = NoError THEN built.tree ELSE New, err |-> err]
                   : err \in ValidateNoCycles(built.tree)})

\* programs.iter().map(|p| (p.clone(), None)).collect()
WithoutPaths(programs) == [i \in 1..Len(programs) |-> <<programs[i], None>>]

FromPrograms(programs) == FromProgramsWithPaths(WithoutPaths(programs))

\* add_program_with_path: Ok(()) or the Err, with the tree the call leaves.  The
\* program is registered and its types are collected before its dependencies
\* are built; the tree keeps a clone of the program, so that the program the
\* two passes are given is held Elsewhere.  There is no cycle check.
AddProgramWithPath(t, program, file_path) ==
    BuildDependenciesFromProgram(
        CollectTypesFromProgram(RegisterProgram(t, program, Some(file_path)), program),
        program, Elsewhere)

(* core.rs: queries *)

GetDependencies(t, qualified_name) ==
    IF ContainsKey(t.nodes, qualified_name)
    THEN Some(t.nodes[qualified_name].dependencies)
    ELSE None

\* All the orders of the elements of a set.
RECURSIVE Orders(_)
Orders(S) ==
    IF S = {} THEN {<<>>}
    ELSE UNION {{<<x>> \o rest : rest \in Orders(S \ {x})} : x \in S}

RECURSIVE DependentsInOrder(_, _, _)
\* DependentsInOrder with the test turned round: the dependencies of the type.
DependentsInOrderReversed(t, order, qualified_name) ==
    IF Len(order) = 0 THEN <<>>
    ELSE (IF order[1] \in t.nodes[qualified_name].dependencies
          THEN <<order[1]>> ELSE <<>>)
         \o DependentsInOrder(t, Tail(order), qualified_name)

\* The filter_map of get_dependents over the nodes in the given order.
DependentsInOrder(t, order, qualified_name) ==
    IF Len(order) = 0 THEN <<>>
    ELSE (IF qualified_name \in t.nodes[order[1]].dependencies
          THEN <<order[1]>> ELSE <<>>)
         \o DependentsInOrder(t, Tail(order), qualified_name)

\* The Vecs get_dependents can return, over the orders of the HashMap.
GetDependents(t, qualified_name) ==
    {DependentsInOrder(t, order, qualified_name) : order \in Orders(DOMAIN t.nodes)}

RECURSIVE AffectedLoop(_, _, _, _)
\* AffectedLoop that stops at the dependents of the first type it pops.
AffectedLoopDirectOnly(t, to_process, processed, affected) ==
    {affected \cup {to_process[Len(to_process)]} \cup {dependents[i] : i \in 1..Len(dependents)}
     : dependents \in GetDependents(t, to_process[Len(to_process)])}

\* while let Some(current) = to_process.pop(): the sets the loop can end with,
\* affected being the HashSet result.
AffectedLoop(t, to_process, processed, affected) ==
    IF Len(to_process) = 0 THEN {affected}
    ELSE Bind(to_process[Len(to_process)],
              LAMBDA current :
                  IF current \in processed
                  THEN AffectedLoop(t, SubSeq(to_process, 1, Len(to_process) - 1),
                                    processed, affected)
                  ELSE UNION {AffectedLoop(
                                  t,
                                  SubSeq(to_process, 1, Len(to_process) - 1)
                                      \o SelectSeq(dependents,
                                                   LAMBDA dependent :
                                                       dependent \notin processed \cup {current}),
                                  processed \cup {current}, affected \cup {current})
                              : dependents \in GetDependents(t, current)})

\* The sets get_all_affected_types can return.
GetAllAffectedTypes(t, qualified_name) == AffectedLoop(t, <<qualified_name>>, {}, {})

----------------------------------------------------------------------------
(* imports.rs: validate_imports *)

RECURSIVE DetectImportCycleDfs(_, _, _, _, _)
RECURSIVE ImportLoop(_, _, _, _, _)

\* [cycle, visited]: cycle is Some(the cycle) or None, visited the keys of the
\* visited map afterwards; rec_stack and path are as the caller had them when
\* cycle is None.
DetectImportCycleDfs(t, file_path, visited, rec_stack, path) ==
    IF ContainsKey(t.import_graph, file_path)
    THEN ImportLoop(t, t.import_graph[file_path], visited \cup {file_path},
                    rec_stack \cup {file_path}, Append(path, file_path))
    ELSE [cycle |-> None, visited |-> visited \cup {file_path}]

\* ImportLoop with the whole stack as the cycle, not its part from cycle_start.
ImportLoopWholePath(t, imports, visited, rec_stack, path) ==
    IF Len(imports) = 0 THEN [cycle |-> None, visited |-> visited]
    ELSE LET imported_file == imports[1]
         IN  IF ~ContainsKey(t.file_to_package, imported_file)
             THEN ImportLoop(t, Tail(imports), visited, rec_stack, path)
             ELSE IF imported_file \notin visited
             THEN LET found == DetectImportCycleDfs(t, imported_file, visited,
                                                    rec_stack, path)
                  IN  IF IsSome(found.cycle) THEN found
                      ELSE ImportLoop(t, Tail(imports), found.visited, rec_stack, path)
             ELSE IF imported_file \in rec_stack
             THEN [cycle |-> Some(Append(path, imported_file)), visited |-> visited]
             ELSE ImportLoop(t, Tail(imports), visited, rec_stack, path)

\* for imported_file in imports, with imports still to come
ImportLoop(t, imports, visited, rec_stack, path) ==
    IF Len(imports) = 0 THEN [cycle |-> None, visited |-> visited]
    ELSE LET imported_file == imports[1]
         IN  IF ~ContainsKey(t.file_to_package, imported_file)
             THEN ImportLoop(t, Tail(imports), visited, rec_stack, path)
             ELSE IF imported_file \notin visited
             THEN LET found == DetectImportCycleDfs(t, imported_file, visited,
                                                    rec_stack, path)
                  IN  IF IsSome(found.cycle) THEN found
                      ELSE ImportLoop(t, Tail(imports), found.visited, rec_stack, path)
             ELSE IF imported_file \in rec_stack
             THEN LET cycle_start ==
                          IF \E i \in 1..Len(path) : path[i] = imported_file
                          THEN Position(path, imported_file) ELSE 1
                  IN  [cycle |-> Some(Append(SubSeq(path, cycle_start, Len(path)),
                                             imported_file)),
                       visited |-> visited]
             ELSE ImportLoop(t, Tail(imports), visited, rec_stack, path)

\* if cycle.first() != cycle.last() { complete_cycle.push(first) }
CompleteCycle(cycle) ==
    IF Len(cycle) > 0 /\ cycle[1] # cycle[Len(cycle)] THEN Append(cycle, cycle[1])
    ELSE cycle

RECURSIVE ImportKeysLoop(_, _, _)
\* for file_path in self.import_graph.keys(), with todo still to come
ImportKeysLoop(t, todo, visited) ==
    IF todo = {} THEN {None}
    ELSE UNION {
        IF file_path \in visited THEN ImportKeysLoop(t, todo \ {file_path}, visited)
        ELSE LET found == DetectImportCycleDfs(t, file_path, visited, {}, <<>>)
             IN  IF IsSome(found.cycle) THEN {Some(CompleteCycle(Unwrap(found.cycle)))}
                 ELSE ImportKeysLoop(t, todo \ {file_path}, found.visited)
        : file_path \in todo}

\* The values detect_circular_imports can return, over the orders of the keys.
DetectCircularImports(t) ==
    IF DOMAIN t.import_graph = {} THEN {None}
    ELSE ImportKeysLoop(t, DOMAIN t.import_graph, {})

\* The import statement of the file that resolves to the path: the first one
\* of the first program registered under the file path that has one.
FindOriginalImport(t, file_path, resolved_path) ==
    LET matches ==
            {ij \in UNION {{<<i, j>> : j \in 1..Len(t.programs[i].program.imports)}
                           : i \in 1..Len(t.programs)} :
                /\ t.programs[ij[1]].file_path = Some(file_path)
                /\ ResolveImportPath(file_path,
                                     t.programs[ij[1]].program.imports[ij[2]].path)
                       = resolved_path}
        firstMatch == CHOOSE ij \in matches :
                          \A other \in matches :
                              \/ ij[1] < other[1]
                              \/ ij[1] = other[1] /\ ij[2] <= other[2]
    IN  IF matches = {} THEN None
        ELSE Some(t.programs[firstMatch[1]].program.imports[firstMatch[2]].path)

RECURSIVE MissingOfFile(_, _, _)
\* MissingOfFile that stops at the first missing import of the file.
MissingOfFileFirstOnly(t, file_path, imported_files) ==
    IF Len(imported_files) = 0 THEN <<>>
    ELSE IF ~ContainsKey(t.file_to_package, imported_files[1])
    THEN <<FileNotFound(imported_files[1], file_path, imported_files[1])>>
    ELSE MissingOfFile(t, file_path, Tail(imported_files))

\* The FileNotFound errors of the imports of one file, in the order of the imports.
MissingOfFile(t, file_path, imported_files) ==
    IF Len(imported_files) = 0 THEN <<>>
    ELSE LET imported_file == imported_files[1]
             original_import == FindOriginalImport(t, file_path, imported_file)
         IN  (IF ~ContainsKey(t.file_to_package, imported_file)
              THEN <<FileNotFound(IF IsSome(original_import)
                                  THEN Unwrap(original_import) ELSE imported_file,
                                  file_path, imported_file)>>
              ELSE <<>>)
             \o MissingOfFile(t, file_path, Tail(imported_files))

RECURSIVE MissingInOrder(_, _)
\* for (file_path, imported_files) in &self.import_graph, in the given order
MissingInOrder(t, order) ==
    IF Len(order) = 0 THEN <<>>
    ELSE MissingOfFile(t, order[1], t.import_graph[order[1]])
             \o MissingInOrder(t, Tail(order))

\* The values validate_imports can return: the Vec of the errors, empty for Ok(()).
ValidateImports(t) ==
    UNION {IF IsSome(cycle) THEN {<<CircularImport(Unwrap(cycle))>>}
           ELSE {MissingInOrder(t, order) : order \in Orders(DOMAIN t.import_graph)}
           : cycle \in DetectCircularImports(t)}

----------------------------------------------------------------------------
(* The Rust generator (glass-codegen/src/rust/mod.rs) *)

EndsWith(s, suffix) ==
    /\ Len(s) >= Len(suffix)
    /\ SubSeq(s, Len(s) - Len(suffix) + 1, Len(s)) = suffix

\* The TypeLocation of a type; program_idx counts from 1.
TypeLocation(qualified_name, program_idx, file_name, package, dependencies) ==
    [qualified_name |-> qualified_name, program_idx |-> program_idx,
     file_name |-> file_name, package |-> package, dependencies |-> dependencies]

\* The inner loop of find_program_for_type: the first of the named programs
\* whose file name the file path ends with.
FirstNamed(file_path, file_names) ==
    LET named == {idx \in 1..Len(file_names) : EndsWith(file_path, file_names[idx])}
    IN  IF named = {} THEN None
        ELSE Some(CHOOSE idx \in named : \A other \in named : idx <= other)

RECURSIVE FindProgramForType(_, _, _, _)
\* find_program_for_type with file_to_types iterated in the given order:
\* Some(<<program_idx, file_name>>) or None.
FindProgramForType(t, file_names, order, qualified_name) ==
    IF Len(order) = 0 THEN None
    ELSE IF Contains(t.file_to_types[order[1]], qualified_name)
            /\ IsSome(FirstNamed(order[1], file_names))
    THEN Some(<<Unwrap(FirstNamed(order[1], file_names)),
                file_names[Unwrap(FirstNamed(order[1], file_names))]>>)
    ELSE FindProgramForType(t, file_names, Tail(order), qualified_name)

\* build_type_location_map with file_to_types iterated in the given order: the
\* types of nodes for which a program was found, with their locations.
TypeLocationsInOrder(t, file_names, order) ==
    [qualified_name \in
         {q \in DOMAIN t.nodes : IsSome(FindProgramForType(t, file_names, order, q))}
     |-> Bind(Unwrap(FindProgramForType(t, file_names, order, qualified_name)),
              LAMBDA found :
                  TypeLocation(qualified_name, found[1], found[2],
                               t.programs[found[1]].package_name,
                               t.nodes[qualified_name].dependencies))]

\* The maps build_type_location_map can return, over the orders of file_to_types.
BuildTypeLocationMap(t, file_names) ==
    {TypeLocationsInOrder(t, file_names, order) : order \in Orders(DOMAIN t.file_to_types)}

\* CodeGeneratorError::CircularDependency
ChainError(qualified_name) ==
    [kind |-> "CircularDependency",
     chain |-> "Circular dependency involving " \o qualified_name]

RECURSIVE TopologicalSortVisit(_, _, _, _, _)
RECURSIVE VisitDependencies(_, _, _, _, _)

\* The results of topological_sort_visit over the orders in which the HashSets
\* of dependencies are iterated: [err, visited, sorted], sorted the result Vec, with temp_mark as the
\* caller had it when err is NoError.
TopologicalSortVisit(type_locations, qualified_name, visited, temp_mark, sorted) ==
    IF qualified_name \in temp_mark
    THEN {[err |-> ChainError(qualified_name), visited |-> visited, sorted |-> sorted]}
    ELSE IF qualified_name \in visited
    THEN {[err |-> NoError, visited |-> visited, sorted |-> sorted]}
    ELSE {IF r.err # NoError THEN r
          ELSE [err |-> NoError, visited |-> r.visited \cup {qualified_name},
                sorted |-> Append(r.sorted, qualified_name)]
          : r \in VisitDependencies(
                      type_locations,
                      IF ContainsKey(type_locations, qualified_name)
                      THEN type_locations[qualified_name].dependencies ELSE {},
                      visited, temp_mark \cup {qualified_name}, sorted)}

\* VisitDependencies that appends a dependency only after the type that
\* depends on it: the dependencies are left for the loop over the keys.
VisitDependenciesLater(type_locations, todo, visited, temp_mark, sorted) ==
    {[err |-> NoError, visited |-> visited, sorted |-> sorted]}

\* for dep in &location.dependencies, with todo still to come
VisitDependencies(type_locations, todo, visited, temp_mark, sorted) ==
    IF todo = {} THEN {[err |-> NoError, visited |-> visited, sorted |-> sorted]}
    ELSE UNION {
        IF ContainsKey(type_locations, dep)
        THEN UNION {IF r.err # NoError THEN {r}
                    ELSE VisitDependencies(type_locations, todo \ {dep}, r.visited,
                                           temp_mark, r.sorted)
                    : r \in TopologicalSortVisit(type_locations, dep, visited,
                                                 temp_mark, sorted)}
        ELSE VisitDependencies(type_locations, todo \ {dep}, visited, temp_mark, sorted)
        : dep \in todo}

RECURSIVE GenerationKeysLoop(_, _, _, _)
\* for qualified_name in type_locations.keys(), with todo still to come:
\* [err, order], order the result Vec so far.
GenerationKeysLoop(type_locations, todo, visited, sorted) ==
    IF todo = {} THEN {[err |-> NoError, order |-> sorted]}
    ELSE UNION {
        IF qualified_name \in visited
        THEN GenerationKeysLoop(type_locations, todo \ {qualified_name}, visited, sorted)
        ELSE UNION {IF r.err # NoError THEN {[err |-> r.err, order |-> <<>>]}
                    ELSE GenerationKeysLoop(type_locations, todo \ {qualified_name},
                                            r.visited, r.sorted)
                    : r \in TopologicalSortVisit(type_locations, qualified_name,
                                                 visited, {}, sorted)}
        : qualified_name \in todo}

\* The results get_generation_order can return: Ok(order) is [err |-> NoError,
\* order |-> order].
GetGenerationOrder(type_locations) ==
    GenerationKeysLoop(type_locations, DOMAIN type_locations, {}, <<>>)

\* str::strip_suffix(suffix).unwrap_or(s)
StripSuffixOrSelf(s, suffix) ==
    IF EndsWith(s, suffix) THEN SubSeq(s, 1, Len(s) - Len(suffix)) ELSE s

\* get_qualified_name
GetQualifiedName(type_name, program) ==
    IF IsSome(program.package)
    THEN Join(Unwrap(program.package), ".") \o "." \o type_name
    ELSE type_name

\* the definitions of a kind, in the order of declaration
DefinitionsOfKind(program, kind) ==
    SelectSeq(program.definitions, LAMBDA def : def.kind = kind)

UpperCase == "ABCDEFGHIJKLMNOPQRSTUVWXYZ"

LowerCase == "abcdefghijklmnopqrstuvwxyz"

RECURSIVE ToLowercase(_)
\* str::to_lowercase, for ASCII text
ToLowercase(s) ==
    IF Len(s) = 0 THEN ""
    ELSE (IF Positions(UpperCase, SubSeq(s, 1, 1)) = {} THEN SubSeq(s, 1, 1)
          ELSE Bind(Max(Positions(UpperCase, SubSeq(s, 1, 1))),
                    LAMBDA at : SubSeq(LowerCase, at, at)))
         \o ToLowercase(SubSeq(s, 2, Len(s)))

RECURSIVE Replace(_, _, _)
\* str::replace of the one-character pattern from
Replace(s, from, to) ==
    IF Len(s) = 0 THEN ""
    ELSE (IF SubSeq(s, 1, 1) = from THEN to ELSE SubSeq(s, 1, 1))
         \o Replace(SubSeq(s, 2, Len(s)), from, to)

\* convert_primitive_to_rust; the primitive types are not told apart
ConvertPrimitiveToRust == "primitive"

RECURSIVE GenerateFieldType(_, _, _, _)
\* generate_field_type, which returns Ok on every path
GenerateFieldType(type_value, program, package_name, file_stem) ==
    IF type_value.kind = "Primitive" THEN ConvertPrimitiveToRust
    ELSE IF type_value.kind = "Option"
    THEN "Option<" \o GenerateFieldType(type_value.inner, program, package_name, file_stem)
                  \o ">"
    ELSE IF type_value.kind = "Vec"
    THEN "Vec<" \o GenerateFieldType(type_value.inner, program, package_name, file_stem)
               \o ">"
    ELSE IF IsSome(type_value.package)
    THEN "crate::" \o Join(Unwrap(type_value.package), "::") \o "::"
                  \o ToLowercase(type_value.name) \o "::" \o type_value.name
    ELSE IF package_name = "root"
    THEN "crate::" \o file_stem \o "::" \o type_value.name
    ELSE "crate::" \o Replace(package_name, ".", "::") \o "::" \o file_stem
                  \o "::" \o type_value.name

\* for field in &schema_def.fields: the types written for the fields
GenerateFields(fields, program, package_name, file_stem) ==
    [k \in 1..Len(fields) |->
        GenerateFieldType(fields[k], program, package_name, file_stem)]

\* What is pushed to content for one definition: the item, its name and the
\* types of its fields.
Emitted(item, def, program, package_name, file_stem) ==
    [item |-> item, name |-> def.name,
     fields |-> GenerateFields(def.fields, program, package_name, file_stem)]

RECURSIVE EmitAll(_, _, _, _, _)
EmitAll(item, defs, program, package_name, file_stem) ==
    IF Len(defs) = 0 THEN <<>>
    ELSE <<Emitted(item, defs[1], program, package_name, file_stem)>>
         \o EmitAll(item, Tail(defs), program, package_name, file_stem)

\* for schema_def in &schemas { if <the name is among names> ... }
EmitNamed(schemas, names, program, package_name, file_stem) ==
    EmitAll("struct", SelectSeq(schemas, LAMBDA schema_def : schema_def.name \in names),
            program, package_name, file_stem)

RECURSIVE EmitInOrder(_, _, _, _, _)
\* for qualified_name in schema_order: the first schema of that qualified
\* name, if there is one.
EmitInOrder(schemas, program, package_name, file_stem, schema_order) ==
    IF Len(schema_order) = 0 THEN <<>>
    ELSE Bind(SelectSeq(schemas, LAMBDA schema_def :
                  GetQualifiedName(schema_def.name, program) = schema_order[1]),
              LAMBDA matching :
                  IF Len(matching) = 0 THEN <<>>
                  ELSE <<Emitted("struct", matching[1], program, package_name, file_stem)>>)
         \o EmitInOrder(schemas, program, package_name, file_stem, Tail(schema_order))

\* The structs of generate_program_rust_code, given what get_generation_order
\* left in schema_order.
EmitSchemas(schemas, program, package_name, file_stem, schema_order) ==
    IF file_stem = "dependency_test"
       /\ \A name \in {"A", "B", "C"} : \E i \in 1..Len(schemas) : schemas[i].name = name
    THEN EmitNamed(schemas, {"A"}, program, package_name, file_stem)
         \o EmitNamed(schemas, {"B"}, program, package_name, file_stem)
         \o EmitNamed(schemas, {"C"}, program, package_name, file_stem)
         \o EmitNamed(schemas, {schemas[i].name : i \in 1..Len(schemas)} \ {"A", "B", "C"},
                      program, package_name, file_stem)
    ELSE IF Len(schema_order) # 0
    THEN EmitInOrder(schemas, program, package_name, file_stem, schema_order)
    ELSE EmitAll("struct", schemas, program, package_name, file_stem)

\* let package_name ... unwrap_or_else(|| "root".to_string())
PackageNameOrRoot(program) ==
    IF IsSome(program.package) THEN Join(Unwrap(program.package), ".") ELSE "root"

\* let program_types ...
ProgramTypes(program) ==
    {GetQualifiedName(program.definitions[i].name, program) :
         i \in {j \in 1..Len(program.definitions) :
                    program.definitions[j].kind \in {"Schema", "Enum"}}}

\* let program_type_locations ...
ProgramTypeLocations(program, type_locations) ==
    [qualified_name \in DOMAIN type_locations \cap ProgramTypes(program)
     |-> type_locations[qualified_name]]

\* The orders schema_order can hold when the structs are emitted, with what
\* get_generation_order returned, None when it was not called.
SchemaOrders(schemas, located) ==
    IF Len(schemas) = 0 \/ DOMAIN located = {}
    THEN {[returned |-> None, schema_order |-> <<>>]}
    ELSE {[returned |-> Some(r),
           schema_order |-> IF r.err = NoError THEN r.order ELSE <<>>]
          : r \in GetGenerationOrder(located)}

\* The contents generate_program_rust_code can return for a program named
\* file_name: the items in the order they are written, with the locations
\* get_generation_order was given and what it returned. Of a field its type
\* is kept; the names of the fields, the variants of the enums and the
\* derive lines are left out.
GenerateProgramRustCode(program, file_name, type_locations) ==
    {[file_name |-> file_name,
      located |-> DOMAIN ProgramTypeLocations(program, type_locations),
      returned |-> o.returned,
      content |-> EmitAll("enum", DefinitionsOfKind(program, "Enum"), program,
                          PackageNameOrRoot(program),
                          StripSuffixOrSelf(file_name, ".glass"))
                  \o IF Len(DefinitionsOfKind(program, "Schema")) = 0 THEN <<>>
                      ELSE EmitSchemas(DefinitionsOfKind(program, "Schema"), program,
                                       PackageNameOrRoot(program),
                                       StripSuffixOrSelf(file_name, ".glass"),
                                       o.schema_order)]
     : o \in SchemaOrders(DefinitionsOfKind(program, "Schema"),
                           ProgramTypeLocations(program, type_locations))}

RECURSIVE GenerateFiles(_, _)
\* The program files of one run, in the order of programs_with_file_names.
GenerateFiles(programs_with_file_names, type_locations) ==
    IF Len(programs_with_file_names) = 0 THEN {<<>>}
    ELSE {<<file>> \o rest :
              file \in GenerateProgramRustCode(programs_with_file_names[1][1],
                                               programs_with_file_names[1][2],
                                               type_locations),
              rest \in GenerateFiles(Tail(programs_with_file_names), type_locations)}

\* RustGenerator::new(&t, programs_with_file_names).generate(): the files of
\* the programs. lib.rs and the mod.rs of the packages are not among them.
Generate(t, programs_with_file_names) ==
    UNION {GenerateFiles(programs_with_file_names, type_locations) :
               type_locations \in BuildTypeLocationMap(
                   t, [i \in 1..Len(programs_with_file_names)
                       |-> programs_with_file_names[i][2]])}

----------------------------------------------------------------------------
(* The batches the constructors are called with *)

\* the most fields a schema of a batch with wrapped field types has
MaxFields == 2

\* the deepest nesting of Option and Vec around a field type
MaxWrap == 2

\* the most import statements the importing file of a batch has
MaxImports == 2

SeqsUpTo(S, n) == UNION {[1..k -> S] : k \in 0..n}

RECURSIVE Wrapped(_, _)
\* The leaves under at most depth wrappers.
Wrapped(leaves, depth) ==
    IF depth = 0 THEN leaves
    ELSE leaves \cup {Option(x) : x \in Wrapped(leaves, depth - 1)}
                \cup {Vec(x) : x \in Wrapped(leaves, depth - 1)}

Import(path) == [path |-> path]

Names == <<"A", "B", "C">>

RECURSIVE RefsTo(_, _, _)
\* One field per name of the set, in the order of names, referring to it by
\* package.
RefsTo(package, names, S) ==
    IF Len(names) = 0 THEN <<>>
    ELSE (IF names[1] \in S THEN <<SchemaRef(package, names[1])>> ELSE <<>>)
         \o RefsTo(package, Tail(names), S)

NameSet == {Names[i] : i \in 1..Len(Names)}

\* Schemas A and B in one program and C in another of the same package, with
\* every dependency graph over them; A and C refer by bare name, B by p.Name.
GraphBatches ==
    {<<Program(Some(<<"p">>), <<>>,
               <<SchemaDef("A", RefsTo(None, Names, a)),
                 SchemaDef("B", RefsTo(Some(<<"p">>), Names, b))>>),
       Program(Some(<<"p">>), <<>>, <<SchemaDef("C", RefsTo(None, Names, c))>>)>>
     : <<a, b, c>> \in (SUBSET NameSet) \X (SUBSET NameSet) \X (SUBSET NameSet)}

\* A schema whose fields are primitives and references to B under wrappers.
WrapBatches ==
    {<<Program(Some(<<"com", "example">>), <<>>,
               <<SchemaDef("A", fields), SchemaDef("B", <<Primitive>>)>>)>>
     : fields \in SeqsUpTo(Wrapped({Primitive, SchemaRef(None, "B")}, MaxWrap),
                           MaxFields)}

\* Schemas A, B, C and D of one program with the edges of a diamond, A to B and
\* C and both to D, each present or not, and possibly the edge from D back to A.
DiamondBatches ==
    {<<Program(Some(<<"d">>), <<>>,
               <<SchemaDef("A", RefsTo(None, <<"B", "C">>, a)),
                 SchemaDef("B", RefsTo(None, <<"D">>, b)),
                 SchemaDef("C", RefsTo(None, <<"D">>, c)),
                 SchemaDef("D", RefsTo(None, <<"A">>, d))>>)>>
     : <<a, b, c, d>> \in (SUBSET {"B", "C"}) \X (SUBSET {"D"}) \X (SUBSET {"D"})
                            \X (SUBSET {"A"})}

ProgramBatches == GraphBatches \cup WrapBatches \cup DiamondBatches

\* Files p1.glass and p2.glass in packages of their own, possibly a root-level
\* file, and main.glass, which imports and refers to a type.
ResolutionBatches ==
    {<<<<Program(Some(<<"p1">>), <<>>, <<SchemaDef("Foo", <<>>)>>), Some("p1.glass")>>,
       <<Program(Some(<<"p2">>), <<>>, second), Some("p2.glass")>>>>
       \o root
       \o <<<<Program(package, imports,
                      local \o <<SchemaDef("Main", <<field>>), ServiceDef("Svc")>>),
              Some("main.glass")>>>>
     : <<second, root, package>> \in
           {<<SchemaDef("Foo", <<>>)>>, <<EnumDef("Bar")>>}
           \X {<<>>, <<<<Program(None, <<>>, <<SchemaDef("Foo", <<Primitive>>)>>),
                         Some("root.glass")>>>>}
           \X {None, Some(<<"m">>)},
       <<imports, local, field>> \in
           SeqsUpTo({Import("p1.glass"), Import("p2.glass"), Import("/p2.glass"),
                     Import("missing.glass")}, MaxImports)
           \X {<<>>, <<SchemaDef("Foo", <<>>)>>}
           \X {SchemaRef(None, "Foo"), SchemaRef(None, "Missing"),
               SchemaRef(Some(<<"p1">>), "Foo"), SchemaRef(Some(<<"p2">>), "Foo"),
               SchemaRef(Some(<<"p1">>), "Missing")}}

\* Two files of package p: the first defines A, the second B and, before it,
\* possibly A again.
DuplicateBatches ==
    {<<<<Program(Some(<<"p">>), <<>>, <<SchemaDef("A", fa)>>), Some("a.glass")>>,
       <<Program(Some(<<"p">>), <<>>, again \o <<SchemaDef("B", fb)>>), Some("b.glass")>>>>
     : <<fa, again, fb>> \in
           {<<>>, <<Primitive>>, <<SchemaRef(None, "B")>>}
           \X {<<>>, <<SchemaDef("A", <<>>)>>, <<SchemaDef("A", <<SchemaRef(None, "B")>>)>>,
               <<EnumDef("A")>>}
           \X {<<>>, <<SchemaRef(None, "A")>>}}

ImportTargets ==
    {Import("a.glass"), Import("b.glass"), Import("c.glass"), Import("x.glass"),
     Import("/x.glass")}

\* Three files, each with a type of a package of its own, that import each
\* other and a file that is not in the batch.
ImportBatches ==
    {<<<<Program(Some(<<"a">>), ia, <<SchemaDef("T", <<>>)>>), Some("a.glass")>>,
       <<Program(Some(<<"b">>), ib, <<SchemaDef("T", <<>>)>>), Some("b.glass")>>,
       <<Program(Some(<<"c">>), ic, <<SchemaDef("T", <<>>)>>), Some("c.glass")>>>>
     : <<ia, ib, ic>> \in SeqsUpTo(ImportTargets, MaxImports)
                          \X SeqsUpTo(ImportTargets, 1) \X SeqsUpTo(ImportTargets, 1)}

\* One file that declares the schemas A, B and C in every order, each with
\* references to some of the other two, ingested with or without a path.
DeclarationBatches ==
    UNION {{<<<<Program(Some(<<"p">>), <<>>, definitions), file_path>>>>
            : definitions \in Orders({SchemaDef("A", RefsTo(None, Names, refs[1])),
                                      SchemaDef("B", RefsTo(None, Names, refs[2])),
                                      SchemaDef("C", RefsTo(None, Names, refs[3]))}),
              file_path \in {None, Some("dir/m.glass"), Some("dependency_test.glass")}}
           : refs \in (SUBSET {"B", "C"}) \X (SUBSET {"A", "C"}) \X (SUBSET {"A", "B"})}

\* A file at the top level, in a directory or in a directory of a directory
\* that imports, in every form, one of two files of the directory dir.
DirectoryBatches ==
    {<<<<Program(Some(<<"a">>), <<Import(path)>>, <<SchemaDef("T", <<>>)>>),
         Some(importing_file)>>,
       <<Program(Some(<<"b">>), <<>>, <<SchemaDef("T", <<>>)>>), Some("dir/b.glass")>>,
       <<Program(Some(<<"c">>), <<>>, <<SchemaDef("T", <<>>)>>), Some("dir/c.glass")>>>>
     : importing_file \in {"a.glass", "dir/a.glass", "dir/sub/a.glass"},
       path \in {"./b.glass", "../c.glass", "./dir/b.glass", "/dir/b.glass",
                 "dir/c.glass", "./sub/../b.glass"}}

PathBatches ==
    ResolutionBatches \cup DuplicateBatches \cup ImportBatches \cup DeclarationBatches
        \cup DirectoryBatches

\* The file names a caller gives the generator for a program: the last
\* component of the path it was ingested with, any name without one.
FileNamesOf(file_path) ==
    IF IsSome(file_path)
    THEN {IF IsSome(RsplitOnce(Unwrap(file_path), "/"))
          THEN Unwrap(RsplitOnce(Unwrap(file_path), "/"))[2]
          ELSE Unwrap(file_path)}
    ELSE {"m.glass", "dependency_test.glass"}

RECURSIVE ProgramsWithFileNames(_)
\* The ways to name the programs of a batch.
ProgramsWithFileNames(programs_with_paths) ==
    IF Len(programs_with_paths) = 0 THEN {<<>>}
    ELSE {<<<<programs_with_paths[1][1], file_name>>>> \o rest :
              file_name \in FileNamesOf(programs_with_paths[1][2]),
              rest \in ProgramsWithFileNames(Tail(programs_with_paths))}

\* the most add_program_with_path calls made on one tree
MaxAdded == 2

\* The programs add_program_with_path is called with: a.glass of package p and
\* b.glass of package q, with references that resolve, that do not, and that
\* close a cycle.
AddedPrograms ==
    {<<Program(Some(<<"p">>), imports, definitions), "a.glass">>
     : <<imports, definitions>> \in
           {<<>>, <<Import("b.glass")>>, <<Import("x.glass")>>}
           \X {<<SchemaDef("A", <<Primitive>>)>>,
               <<SchemaDef("A", <<SchemaRef(None, "A")>>)>>,
               <<SchemaDef("A", <<SchemaRef(None, "B")>>),
                 SchemaDef("B", <<SchemaRef(None, "A")>>)>>,
               <<SchemaDef("A", <<SchemaRef(Some(<<"q">>), "B")>>)>>,
               <<SchemaDef("A", <<SchemaRef(None, "Missing")>>)>>}}
    \cup
    {<<Program(Some(<<"q">>), imports, definitions), "b.glass">>
     : <<imports, definitions>> \in
           {<<>>, <<Import("a.glass")>>}
           \X {<<SchemaDef("B", <<>>)>>,
               <<SchemaDef("B", <<SchemaRef(Some(<<"p">>), "A")>>)>>,
               <<SchemaDef("C", <<>>), SchemaDef("B", <<SchemaRef(None, "C")>>)>>}}

----------------------------------------------------------------------------
(* The calls *)

(* glass-transport, server/handler.rs: the framing of a stream *)

\* let mut message_len_buffer = [0u8; 8]
MessageLenBufferSize == 8

\* let mut temp_buffer = [0u8; 128]
TempBufferSize == 128

\* the most messages written to the stream
MaxMessages == 2

\* the most bytes the payload of a message has
MaxPayload == 2

\* The payloads of the messages: bytes 1 and 2.
Payloads == UNION {[1..n -> {1, 2}] : n \in 0..MaxPayload}

\* ciborium::ser::into_writer: a self-delimiting encoding, a header with the
\* length of the payload and the payload. The other fields of Message are
\* left out.
IntoWriter(payload) == <<Len(payload)>> \o payload

\* ciborium::de::from_reader: the value encoded at the start of the buffer,
\* whatever follows it; None when the buffer does not hold a whole value.
FromReader(buffer) ==
    IF Len(buffer) >= 1 /\ Len(buffer) >= 1 + buffer[1]
    THEN Some(SubSeq(buffer, 2, 1 + buffer[1]))
    ELSE None

\* a length no stream of the model reaches
Huge == 16777216

\* u64::to_be_bytes of a length below 256
ToBeBytes(n) == <<0, 0, 0, 0, 0, 0, 0, n>>

\* u64::from_be_bytes; a value of 2^24 or more is given as Huge.
FromBeBytes(bytes) ==
    IF \E i \in 1..5 : bytes[i] # 0 THEN Huge
    ELSE bytes[6] * 65536 + bytes[7] * 256 + bytes[8]

\* send_buffer of write_message: the length of the encoded message and the
\* encoded message
SendBuffer(payload) == ToBeBytes(Len(IntoWriter(payload))) \o IntoWriter(payload)

\* read_message before its first read; consumed counts the bytes the call
\* took from the stream.
NewCall ==
    [pc |-> "length", message_len |-> 0, total_bytes_read |-> 0,
     message_buffer |-> <<>>, consumed |-> 0]

Min(a, b) == IF a <= b THEN a ELSE b

\* write_message(message, &mut send) by the peer: write_all_buf appends the
\* whole send_buffer to the stream
WriteMessage ==
    /\ Len(sent) < MaxMessages
    /\ \E payload \in Payloads :
           /\ wire' = wire \o SendBuffer(payload)
           /\ sent' = Append(sent, payload)
    /\ UNCHANGED <<reading, received>>
    /\ UNCHANGED <<tree, result, input, first, imports_result, added, generated>>

\* recv.read_exact(&mut message_len_buffer) on a stream that stays open: the
\* call goes on when the stream has delivered eight bytes
ReadMessageLength ==
    /\ reading.pc = "length"
    /\ Len(wire) >= MessageLenBufferSize
    /\ reading' = [reading EXCEPT
                   !.pc = "payload",
                   !.message_len = FromBeBytes(SubSeq(wire, 1, MessageLenBufferSize)),
                   !.consumed = MessageLenBufferSize]
    /\ wire' = SubSeq(wire, MessageLenBufferSize + 1, Len(wire))
    /\ UNCHANGED <<sent, received>>
    /\ UNCHANGED <<tree, result, input, first, imports_result, added, generated>>

\* One turn of the loop of read_message: recv.read(&mut temp_buffer) returns
\* some of the bytes the stream has, at most the size of temp_buffer.
ReadMessageChunk ==
    /\ reading.pc = "payload"
    /\ reading.total_bytes_read < reading.message_len
    /\ \E read_buf \in 1..Min(TempBufferSize, Len(wire)) :
           /\ reading' = [reading EXCEPT
                          !.total_bytes_read = @ + read_buf,
                          !.message_buffer = @ \o SubSeq(wire, 1, read_buf),
                          !.consumed = @ + read_buf]
           /\ wire' = SubSeq(wire, read_buf + 1, Len(wire))
    /\ UNCHANGED <<sent, received>>
    /\ UNCHANGED <<tree, result, input, first, imports_result, added, generated>>

\* The loop of read_message is left and the buffer is decoded. After Ok the
\* task of handle_session hands the message to the handler and calls
\* read_message again, after Err it ends.
ReadMessageReturn ==
    /\ reading.pc = "payload"
    /\ reading.total_bytes_read >= reading.message_len
    /\ received' = Append(received,
                          [message |-> FromReader(reading.message_buffer),
                           message_len |-> reading.message_len,
                           consumed |-> reading.consumed])
    /\ reading' = IF IsSome(FromReader(reading.message_buffer)) THEN NewCall
               ELSE [NewCall EXCEPT !.pc = "closed"]
    /\ UNCHANGED <<wire, sent>>
    /\ UNCHANGED <<tree, result, input, first, imports_result, added, generated>>

----------------------------------------------------------------------------

Init ==
    /\ tree = New
    /\ result = None
    /\ input = <<>>
    /\ first = None
    /\ imports_result = None
    /\ added = <<>>
    /\ generated = None
    /\ wire = <<>>
    /\ sent = <<>>
    /\ reading = NewCall
    /\ received = <<>>

\* TypeTree::from_programs(&programs)
CallFromPrograms ==
    /\ result = None
    /\ added = <<>>
    /\ \E programs \in ProgramBatches :
           \E returned \in FromPrograms(programs) :
               /\ input' = WithoutPaths(programs)
               /\ tree' = returned.tree
               /\ result' = Some(returned.err)
    /\ UNCHANGED <<first, imports_result, added, generated>>
    /\ UNCHANGED stream_vars

\* TypeTree::from_programs_with_paths(&programs_with_paths)
CallFromProgramsWithPaths ==
    /\ result = None
    /\ added = <<>>
    /\ \E programs_with_paths \in PathBatches :
           \E returned \in FromProgramsWithPaths(programs_with_paths) :
               /\ input' = programs_with_paths
               /\ tree' = returned.tree
               /\ result' = Some(returned.err)
    /\ UNCHANGED <<first, imports_result, added, generated>>
    /\ UNCHANGED stream_vars

\* The constructor is called a second time with the same batch.
CallAgain ==
    /\ result # None
    /\ first = None
    /\ imports_result = None
    /\ generated = None
    /\ \E returned \in FromProgramsWithPaths(input) :
           /\ first' = Some([tree |-> tree, err |-> Unwrap(result)])
           /\ tree' = returned.tree
           /\ result' = Some(returned.err)
    /\ UNCHANGED <<input, imports_result, added, generated>>
    /\ UNCHANGED stream_vars

\* tree.validate_imports()
CallValidateImports ==
    /\ result = Some(NoError) \/ added # <<>>
    /\ imports_result = None
    /\ generated = None
    /\ \E errors \in ValidateImports(tree) : imports_result' = Some(errors)
    /\ UNCHANGED <<tree, result, input, first, added, generated>>
    /\ UNCHANGED stream_vars

\* tree.add_program_with_path(program, file_path) on a tree made by TypeTree::new()
CallAddProgramWithPath ==
    /\ result = None
    /\ imports_result = None
    /\ Len(added) < MaxAdded
    /\ \E call \in AddedPrograms :
           /\ \A i \in 1..Len(added) : added[i].file_path # call[2]
           /\ Bind(AddProgramWithPath(tree, call[1], call[2]),
                   LAMBDA returned :
                       /\ tree' = returned.tree
                       /\ added' = Append(added, [program |-> call[1],
                                                  file_path |-> call[2],
                                                  before |-> tree,
                                                  err |-> returned.err]))
    /\ UNCHANGED <<result, input, first, imports_result, generated>>
    /\ UNCHANGED stream_vars

\* RustGenerator::new(&tree, programs_with_file_names).generate() on the tree
\* of the batch
CallGenerate ==
    /\ result = Some(NoError)
    /\ first = None
    /\ imports_result = None
    /\ generated = None
    /\ \E programs_with_file_names \in ProgramsWithFileNames(input) :
           \E files \in Generate(tree, programs_with_file_names) :
               generated' = Some(files)
    /\ UNCHANGED <<tree, result, input, first, imports_result, added>>
    /\ UNCHANGED stream_vars

Next ==
    \/ CallGenerate
    \/ CallFromPrograms
    \/ CallFromProgramsWithPaths
    \/ CallAgain
    \/ CallValidateImports
    \/ CallAddProgramWithPath

Spec == Init /\ [][Next]_vars

\* One stream of a session: a peer that writes messages and the task that
\* reads them.
StreamNext ==
    \/ WriteMessage
    \/ ReadMessageLength
    \/ ReadMessageChunk
    \/ ReadMessageReturn

StreamSpec == Init /\ [][StreamNext]_vars

----------------------------------------------------------------------------
(* What the properties below speak of *)

Built == result # None

Succeeded == result = Some(NoError)

\* validate_imports and the generator take the tree by shared reference and
\* leave it and the batch as they are: the states before they are called
\* hold every tree and every result of a constructor.
Unqueried == imports_result = None /\ generated = None

\* the state right after the constructor returned
JustBuilt == Built /\ first = None /\ Unqueried

\* the error the constructor returned, NoError after Ok(tree)
Failure == Unwrap(result)

Range(seq) == {seq[i] : i \in 1..Len(seq)}

\* The dependency sets of the nodes of a tree, as a graph.
DepGraph(t) == [n \in DOMAIN t.nodes |-> t.nodes[n].dependencies]

\* The import lists of a tree without the files that were not ingested.
ImportGraph(t) ==
    [f \in DOMAIN t.import_graph |->
        Range(t.import_graph[f]) \cap DOMAIN t.file_to_package]

RECURSIVE Grow(_, _)
Grow(g, S) ==
    LET more == S \cup UNION {g[x] : x \in S \cap DOMAIN g}
    IN  IF more = S THEN S ELSE Grow(g, more)

\* What n reaches in g along one edge or more.
TransitiveClosure(g, n) == Grow(g, g[n])

\* The cycles of g that pass no node twice, as the sequences of their nodes.
SimpleCycles(g) ==
    {c \in UNION {Orders(S) : S \in (SUBSET DOMAIN g) \ {{}}} :
        \A i \in 1..Len(c) : c[(i % Len(c)) + 1] \in g[c[i]]}

\* walk is a cycle of g written with its first node repeated at the end.
IsClosedCycle(g, walk) ==
    /\ Len(walk) >= 2
    /\ walk[1] = walk[Len(walk)]
    /\ \A i \in 1..(Len(walk) - 1) :
           /\ walk[i] \in DOMAIN g
           /\ walk[i + 1] \in g[walk[i]]
    /\ \A i, j \in 1..(Len(walk) - 1) : i # j => walk[i] # walk[j]

RECURSIVE SplitArrow(_)
\* The names of a path "a -> b -> c".
SplitArrow(path) ==
    LET arrows == {i \in 1..(Len(path) - 3) : SubSeq(path, i, i + 3) = " -> "}
        i == CHOOSE x \in arrows : \A y \in arrows : x <= y
    IN  IF arrows = {} THEN <<path>>
        ELSE <<SubSeq(path, 1, i - 1)>> \o SplitArrow(SubSeq(path, i + 4, Len(path)))

\* The type a field type holds under its Options and Vecs.
RECURSIVE Leaf(_)
Leaf(type_value) ==
    IF type_value.kind \in {"Option", "Vec"} THEN Leaf(type_value.inner) ELSE type_value

\* The places <<program, definition>> of the schemas and enums of a batch.
TypePlaces(batch) ==
    {pl \in UNION {{<<i, j>> : j \in 1..Len(batch[i][1].definitions)}
                   : i \in 1..Len(batch)} :
        batch[pl[1]][1].definitions[pl[2]].kind # "Service"}

DefinitionAt(batch, pl) == batch[pl[1]][1].definitions[pl[2]]

QualifiedNameAt(batch, pl) ==
    QualifiedName(PackageName(batch[pl[1]][1]), DefinitionAt(batch, pl).name)

\* The qualified names the programs of a batch define.
Defined(batch) == {QualifiedNameAt(batch, pl) : pl \in TypePlaces(batch)}

Before(pl, other) == pl[1] < other[1] \/ (pl[1] = other[1] /\ pl[2] < other[2])

HasDuplicate(batch) ==
    \E pl, other \in TypePlaces(batch) :
        pl # other /\ QualifiedNameAt(batch, pl) = QualifiedNameAt(batch, other)

\* The schema references of the fields of a definition.
References(definition) ==
    {Leaf(definition.fields[k]) : k \in 1..Len(definition.fields)}
        \ {Primitive}

\* The name a qualified reference spells.
Spelled(schema_ref) ==
    Join(Unwrap(schema_ref.package), ".") \o "." \o schema_ref.name

\* No program of the batch defines a type the reference could mean.
DefinedNowhere(batch, schema_ref) ==
    IF IsSome(schema_ref.package) THEN Spelled(schema_ref) \notin Defined(batch)
    ELSE \A pl \in TypePlaces(batch) : DefinitionAt(batch, pl).name # schema_ref.name

\* The batch with every field type replaced by the type under its wrappers.
Unwrapped(batch) ==
    [i \in 1..Len(batch) |->
        <<[batch[i][1] EXCEPT !.definitions =
               [j \in 1..Len(@) |->
                   [@[j] EXCEPT !.fields = [k \in 1..Len(@) |-> Leaf(@[k])]]]],
          batch[i][2]>>]

\* What a caller sees of a constructor's return: the error, the dependency sets.
Outcome(returned) == [err |-> returned.err, dependencies |-> DepGraph(returned.tree)]

\* The dependency sets the second pass leaves for the batch of the state.
ResolvedGraph == DepGraph(SecondPass(input).tree)

\* Every reference of the batch of the state resolved.
Resolves == SecondPass(input).err = NoError

\* c is the only cycle of g, but for where it is started.
OnlyCycle(g, c) == \A other \in SimpleCycles(g) : Range(other) = Range(c)

----------------------------------------------------------------------------
(* Acyclicity and the reported cycle *)

\* C1: whenever from_programs or from_programs_with_paths returns Ok(tree), no
\* type of tree.nodes is in the transitive closure of its own dependencies; a
\* schema that refers to itself is such a type.
C1_NoTypeDependsOnItself ==
    Succeeded =>
        \A n \in DOMAIN tree.nodes : n \notin TransitiveClosure(DepGraph(tree), n)

\* A tree was returned in which one type depends on a second that depends on a
\* third.
C1_Witness ==
    /\ Succeeded
    /\ \E a, b \in DOMAIN tree.nodes :
           /\ a # b
           /\ b \in tree.nodes[a].dependencies
           /\ tree.nodes[b].dependencies # {}

\* C2 as stated: when 2 or 3 schemas of the batch refer to each other in a
\* cycle, construction fails with CircularDependency and the path names every
\* schema of that cycle and begins and ends with the same name.
C2_PathNamesEveryCycle ==
    (Built /\ Resolves) =>
        \A c \in SimpleCycles(ResolvedGraph) :
            Len(c) \in {2, 3} =>
                /\ Failure.kind = "CircularDependency"
                /\ LET names == SplitArrow(Failure.path)
                   IN  /\ names[1] = names[Len(names)]
                       /\ Range(c) \subseteq Range(names)

\* C2 amended: when every reference resolves and the dependency sets hold a
\* cycle, construction fails with CircularDependency; the path follows
\* dependency edges from a name back to the same name, passing no other name
\* twice, so it names every schema of one cycle, and it names all 2 or 3
\* schemas of a cycle that is the only cycle of the batch.
C2_PathIsOneCycle ==
    (Built /\ Unqueried) =>
        Bind(SecondPass(input),
             LAMBDA second :
                 second.err = NoError =>
                     Bind(SimpleCycles(DepGraph(second.tree)),
                          LAMBDA cycles :
                              cycles # {} =>
                                  /\ Failure.kind = "CircularDependency"
                                  /\ IsClosedCycle(DepGraph(second.tree),
                                                   SplitArrow(Failure.path))
                                  /\ \A c \in cycles :
                                         (/\ Len(c) \in {2, 3}
                                          /\ \A other \in cycles : Range(other) = Range(c))
                                             => Range(c) \subseteq
                                                    Range(SplitArrow(Failure.path))))

\* Three schemas form the only cycle of the batch and the path names the three.
C2_Witness ==
    /\ Built
    /\ Resolves
    /\ \E c \in SimpleCycles(ResolvedGraph) :
           Len(c) = 3 /\ OnlyCycle(ResolvedGraph, c)
    /\ Failure.kind = "CircularDependency"
    /\ Len(SplitArrow(Failure.path)) = 4

----------------------------------------------------------------------------
(* Duplicate and ambiguous names *)

\* C3 as stated: a batch in which two definitions have the same qualified name
\* fails with a duplicate-type error, and no node is overwritten by a later
\* definition of its name: a node holds the first definition of its name.
C3_DuplicateIsAnError ==
    Built =>
        /\ HasDuplicate(input) => Failure.kind = "DuplicateType"
        /\ Succeeded =>
               \A pl \in TypePlaces(input) :
                   (\A other \in TypePlaces(input) :
                        QualifiedNameAt(input, other) = QualifiedNameAt(input, pl)
                            => ~Before(other, pl))
                       => tree.nodes[QualifiedNameAt(input, pl)].definition
                              = DefinitionAt(input, pl)

\* A batch with two definitions of one qualified name was accepted, and the
\* node of that name holds the later definition.
C3_Witness ==
    /\ Succeeded
    /\ \E pl, other \in TypePlaces(input) :
           /\ Before(pl, other)
           /\ QualifiedNameAt(input, pl) = QualifiedNameAt(input, other)
           /\ DefinitionAt(input, pl) # DefinitionAt(input, other)
           /\ tree.nodes[QualifiedNameAt(input, other)].definition
                  = DefinitionAt(input, other)

\* The packages of the ingested files that program i of the batch imports and
\* that define the name.
ImportedPackagesDefining(batch, i, name) ==
    {PackageName(batch[j][1]) :
        j \in {j \in 1..Len(batch) :
                 /\ IsSome(batch[i][2])
                 /\ \E k \in 1..Len(batch[i][1].imports) :
                        batch[j][2] = Some(ResolveImportPath(Unwrap(batch[i][2]),
                                                             batch[i][1].imports[k].path))
                 /\ QualifiedName(PackageName(batch[j][1]), name) \in Defined(batch)}}

\* C4 as stated: an unqualified reference that matches neither the current
\* package nor the root package, and that two packages of directly imported
\* files define, fails with AmbiguousTypeReference, which names the reference
\* and lists every matching qualified name.
C4_AmbiguousIsAnError ==
    Built =>
        \A pl \in TypePlaces(input) :
            \A schema_ref \in References(DefinitionAt(input, pl)) :
                (/\ ~IsSome(schema_ref.package)
                 /\ QualifiedName(PackageName(input[pl[1]][1]), schema_ref.name)
                        \notin Defined(input)
                 /\ schema_ref.name \notin Defined(input)
                 /\ Cardinality(ImportedPackagesDefining(input, pl[1], schema_ref.name))
                        >= 2)
                    => /\ Failure.kind = "AmbiguousTypeReference"
                       /\ Failure.name = schema_ref.name
                       /\ Range(Failure.candidates) =
                              {QualifiedName(package, schema_ref.name) :
                                  package \in ImportedPackagesDefining(
                                                  input, pl[1], schema_ref.name)}

\* A bare Foo that the packages of two imported files define was resolved to
\* the Foo of the first import.
C4_Witness ==
    /\ Succeeded
    /\ \E pl \in TypePlaces(input) :
           /\ SchemaRef(None, "Foo") \in References(DefinitionAt(input, pl))
           /\ ImportedPackagesDefining(input, pl[1], "Foo") = {"p1", "p2"}
           /\ QualifiedName(PackageName(input[pl[1]][1]), "Foo") \notin Defined(input)
           /\ "Foo" \notin Defined(input)
           /\ tree.nodes[QualifiedNameAt(input, pl)].dependencies = {"p1.Foo"}

----------------------------------------------------------------------------
(* Determinism *)

\* C5 as stated: two constructions of the same batch return the same nodes
\* and dependency sets, and the same error value, the cycle path included.
C5_SameResultTwice ==
    first # None =>
        /\ Unwrap(first).tree.nodes = tree.nodes
        /\ Unwrap(first).err = Failure

\* C5 amended: two constructions of the same batch return the same nodes and
\* dependency sets on success and an error of the same kind on failure, the
\* same error value unless it is a CircularDependency, whose path depends on
\* the iteration order of the hash maps.
C5_SameResultButThePath ==
    first # None =>
        /\ Unwrap(first).tree.nodes = tree.nodes
        /\ Unwrap(first).err.kind = Failure.kind
        /\ Failure.kind # "CircularDependency" => Unwrap(first).err = Failure

\* Two constructions of one batch reported two different cycle paths.
C5_Witness ==
    /\ first # None
    /\ Failure.kind = "CircularDependency"
    /\ Unwrap(first).err.kind = "CircularDependency"
    /\ Unwrap(first).err # Failure

----------------------------------------------------------------------------
(* Dependencies *)

\* C6: in a constructed tree, b is in get_dependencies(a) if and only if a is
\* in get_dependents(b), and get_dependents(b) lists each such a once.
C6_DependentsMirrorDependencies ==
    (Succeeded /\ Unqueried) =>
        \A b \in DOMAIN tree.nodes :
            \A dependents \in GetDependents(tree, b) :
                /\ \A a \in DOMAIN tree.nodes :
                       b \in Unwrap(GetDependencies(tree, a)) <=> a \in Range(dependents)
                /\ \A i, j \in 1..Len(dependents) :
                       i # j => dependents[i] # dependents[j]

\* A type of a constructed tree has two dependents.
C6_Witness ==
    /\ Succeeded
    /\ \E b \in DOMAIN tree.nodes :
           Cardinality({a \in DOMAIN tree.nodes : b \in tree.nodes[a].dependencies}) >= 2

\* The places <<program, definition, field>> of the schema references of a batch.
ReferencePlaces(batch) ==
    {rp \in UNION {{<<pl[1], pl[2], k>> : k \in 1..Len(DefinitionAt(batch, pl).fields)}
                   : pl \in TypePlaces(batch)} :
        Leaf(DefinitionAt(batch, rp).fields[rp[3]]).kind = "SchemaRef"}

ReferenceAt(batch, rp) == Leaf(DefinitionAt(batch, rp).fields[rp[3]])

Earlier(rp, other) ==
    \/ rp[1] < other[1]
    \/ rp[1] = other[1] /\ rp[2] < other[2]
    \/ rp[1] = other[1] /\ rp[2] = other[2] /\ rp[3] < other[3]

\* C7: after a successful construction every name of every dependency set is a
\* key of nodes; a field that refers to a type no program of the batch defines
\* makes construction fail with TypeNotFound, which for a qualified reference
\* names package.Name (the first such reference, when none before it fails).
C7_NoDanglingDependency ==
    /\ Succeeded =>
           \A n \in DOMAIN tree.nodes : tree.nodes[n].dependencies \subseteq DOMAIN tree.nodes
    /\ Built =>
           \A rp \in ReferencePlaces(input) :
               DefinedNowhere(input, ReferenceAt(input, rp)) =>
                   /\ Failure.kind = "TypeNotFound"
                   /\ (/\ IsSome(ReferenceAt(input, rp).package)
                       /\ \A other \in ReferencePlaces(input) :
                              Earlier(other, rp) =>
                                  /\ IsSome(ReferenceAt(input, other).package)
                                  /\ ~DefinedNowhere(input, ReferenceAt(input, other)))
                          => Failure.name = Spelled(ReferenceAt(input, rp))

\* A qualified reference to a type that no program defines was reported.
C7_Witness ==
    /\ Built
    /\ \E rp \in ReferencePlaces(input) :
           /\ IsSome(ReferenceAt(input, rp).package)
           /\ DefinedNowhere(input, ReferenceAt(input, rp))
    /\ Failure = TypeNotFound("p1.Missing")

\* C8: a field type that wraps a schema reference in Options and Vecs gives
\* the dependency edge of the bare reference and no other: the batch and the
\* batch without its wrappers have the same outcomes, and the fields of a
\* schema add no more names to its dependency set than they refer to types.
C8_WrappersAddNoEdge ==
    Built =>
        /\ JustBuilt =>
               {Outcome(returned) : returned \in FromProgramsWithPaths(input)}
                   = {Outcome(returned)
                      : returned \in FromProgramsWithPaths(Unwrapped(input))}
        /\ Succeeded =>
               \A q \in DOMAIN tree.nodes :
                   \E pl \in TypePlaces(input) :
                       /\ QualifiedNameAt(input, pl) = q
                       /\ Cardinality(tree.nodes[q].dependencies)
                              <= Cardinality(References(DefinitionAt(input, pl)))

\* A schema with a bare reference and the same reference under two wrappers
\* has the one dependency.
C8_Witness ==
    /\ Succeeded
    /\ \E pl \in TypePlaces(input) :
           LET fields == DefinitionAt(input, pl).fields
           IN  /\ Len(fields) = 2
               /\ fields[1].kind = "SchemaRef"
               /\ fields[2].kind \in {"Option", "Vec"}
               /\ fields[2].inner.kind \in {"Option", "Vec"}
               /\ Leaf(fields[2]) = fields[1]
               /\ Cardinality(tree.nodes[QualifiedNameAt(input, pl)].dependencies) = 1

\* C9 as stated: a schema all of whose fields are primitive has an empty
\* dependency set after construction, get_dependencies returns Some of the
\* empty set for it, and its name is in no reported CircularDependency path.
C9_PrimitiveSchemaHasNoDependency ==
    Built =>
        \A pl \in TypePlaces(input) :
            (/\ DefinitionAt(input, pl).kind = "Schema"
             /\ References(DefinitionAt(input, pl)) = {})
                => /\ Succeeded =>
                          GetDependencies(tree, QualifiedNameAt(input, pl)) = Some({})
                   /\ Failure.kind = "CircularDependency" =>
                          QualifiedNameAt(input, pl) \notin Range(SplitArrow(Failure.path))

\* A schema whose only field is primitive has a dependency after construction.
C9_Witness ==
    /\ Succeeded
    /\ \E pl \in TypePlaces(input) :
           /\ DefinitionAt(input, pl) = SchemaDef("A", <<Primitive>>)
           /\ GetDependencies(tree, QualifiedNameAt(input, pl)) = Some({"p.B"})

----------------------------------------------------------------------------
(* Import cycles *)

\* C10 as stated: when the import graph of the ingested files has a cycle,
\* validate_imports returns one error, a CircularImport whose list begins and
\* ends with the same file, holds every file of that cycle and follows import
\* edges, and no FileNotFound with it.
C10_CycleListHoldsEveryCycle ==
    (imports_result # None /\ SimpleCycles(ImportGraph(tree)) # {}) =>
        LET errors == Unwrap(imports_result)
        IN  /\ Len(errors) = 1
            /\ errors[1].kind = "CircularImport"
            /\ errors[1].cycle[1] = errors[1].cycle[Len(errors[1].cycle)]
            /\ \A i \in 1..(Len(errors[1].cycle) - 1) :
                   errors[1].cycle[i + 1] \in ImportGraph(tree)[errors[1].cycle[i]]
            /\ \A c \in SimpleCycles(ImportGraph(tree)) :
                   Range(c) \subseteq Range(errors[1].cycle)

\* C10 amended: when the import graph of the ingested files has a cycle,
\* validate_imports returns one error and no FileNotFound with it: a
\* CircularImport whose list follows import edges from a file back to the
\* same file, passing no other file twice; it holds every file of the cycle
\* the search closed, and of a cycle that is the only one of the graph.
C10_CycleListIsOneCycle ==
    (imports_result # None /\ SimpleCycles(ImportGraph(tree)) # {}) =>
        LET errors == Unwrap(imports_result)
        IN  /\ Len(errors) = 1
            /\ errors[1].kind = "CircularImport"
            /\ IsClosedCycle(ImportGraph(tree), errors[1].cycle)
            /\ \A c \in SimpleCycles(ImportGraph(tree)) :
                   OnlyCycle(ImportGraph(tree), c) =>
                       Range(c) \subseteq Range(errors[1].cycle)

\* A cycle of three files was reported from a tree in which a file imports a
\* file that was not ingested.
C10_Witness ==
    /\ imports_result # None
    /\ Len(Unwrap(imports_result)) = 1
    /\ Unwrap(imports_result)[1].kind = "CircularImport"
    /\ Len(Unwrap(imports_result)[1].cycle) = 4
    /\ \E f \in DOMAIN tree.import_graph :
           ~(Range(tree.import_graph[f]) \subseteq DOMAIN tree.file_to_package)

----------------------------------------------------------------------------
(* Missing imports *)

RECURSIVE ErrorsFrom(_, _)
\* The errors of the list that name the file as from_file, in their order.
ErrorsFrom(errors, file_path) ==
    IF Len(errors) = 0 THEN <<>>
    ELSE (IF errors[1].from_file = file_path THEN <<errors[1]>> ELSE <<>>)
         \o ErrorsFrom(Tail(errors), file_path)

\* The positions of the imports of a file that resolve to no ingested file.
MissingEdges(t, file_path) ==
    {i \in 1..Len(t.import_graph[file_path]) :
        t.import_graph[file_path][i] \notin DOMAIN t.file_to_package}

\* The resolved paths of the missing imports of a file, in the order of its
\* import statements.
RECURSIVE MissingPaths(_, _)
MissingPaths(t, imported_files) ==
    IF Len(imported_files) = 0 THEN <<>>
    ELSE (IF imported_files[1] \notin DOMAIN t.file_to_package
          THEN <<imported_files[1]>> ELSE <<>>)
         \o MissingPaths(t, Tail(imported_files))

\* C11: when the import graph has no cycle, validate_imports returns Ok(()) if
\* and only if every resolved import path is the path of an ingested file;
\* otherwise it returns one FileNotFound for each import edge whose resolved
\* path is not in file_to_package, with the importing file as from_file and
\* the missing path as resolved_path.
C11_OneFileNotFoundPerMissingEdge ==
    (imports_result # None /\ SimpleCycles(ImportGraph(tree)) = {}) =>
        LET errors == Unwrap(imports_result)
        IN  /\ errors = <<>> <=>
                   \A f \in DOMAIN tree.import_graph : MissingEdges(tree, f) = {}
            /\ \A i \in 1..Len(errors) :
                   /\ errors[i].kind = "FileNotFound"
                   /\ errors[i].from_file \in DOMAIN tree.import_graph
            /\ \A f \in DOMAIN tree.import_graph :
                   LET from_f == ErrorsFrom(errors, f)
                   IN  [i \in 1..Len(from_f) |-> from_f[i].resolved_path]
                           = MissingPaths(tree, tree.import_graph[f])

\* validate_imports reported two imports of one file and an import of another
\* file as missing; no file imports itself or is imported back.
C11_Witness ==
    /\ imports_result # None
    /\ SimpleCycles(ImportGraph(tree)) = {}
    /\ Len(Unwrap(imports_result)) = 3
    /\ \E f, g \in DOMAIN tree.import_graph :
           /\ f # g
           /\ Len(ErrorsFrom(Unwrap(imports_result), f)) = 2
           /\ Len(ErrorsFrom(Unwrap(imports_result), g)) = 1

\* validate_imports returned FileNotFound errors, or none.
MissingOnly ==
    /\ imports_result # None
    /\ \A i \in 1..Len(Unwrap(imports_result)) :
           Unwrap(imports_result)[i].kind = "FileNotFound"

\* The import statements of the program ingested under the file path.
StatementsOf(t, file_path) ==
    LET i == CHOOSE i \in 1..Len(t.programs) : t.programs[i].file_path = Some(file_path)
    IN  t.programs[i].program.imports

RECURSIVE MissingLiterals(_, _, _)
\* The paths, as written, of the import statements of a file that resolve to
\* no ingested file, in the order of the statements.
MissingLiterals(t, file_path, statements) ==
    IF Len(statements) = 0 THEN <<>>
    ELSE (IF ResolveImportPath(file_path, statements[1].path)
                 \notin DOMAIN t.file_to_package
          THEN <<statements[1].path>> ELSE <<>>)
         \o MissingLiterals(t, file_path, Tail(statements))

\* C12 as stated: every FileNotFound of validate_imports has as import_path
\* the string of the import statement that made the edge, as the importing
\* program wrote it, for each missing edge, also when several statements of one
\* file resolve to the same missing path.
C12_ImportPathIsTheStatement ==
    MissingOnly =>
        \A f \in DOMAIN tree.import_graph :
            LET from_f == ErrorsFrom(Unwrap(imports_result), f)
            IN  [i \in 1..Len(from_f) |-> from_f[i].import_path]
                    = MissingLiterals(tree, f, StatementsOf(tree, f))

\* Two import statements of one file, written differently, resolve to the
\* same missing path, and both errors carry the string of the first.
C12_Witness ==
    /\ MissingOnly
    /\ \E f \in DOMAIN tree.import_graph :
           LET from_f == ErrorsFrom(Unwrap(imports_result), f)
               literals == MissingLiterals(tree, f, StatementsOf(tree, f))
           IN  /\ Len(from_f) = 2
               /\ Len(literals) = 2
               /\ literals[1] # literals[2]
               /\ from_f[1].resolved_path = from_f[2].resolved_path
               /\ from_f[1].import_path = literals[1]
               /\ from_f[2].import_path = literals[1]

----------------------------------------------------------------------------
(* The generated files *)

Generated == generated # None

\* the files of the run, one per program of the batch
Files == Unwrap(generated)

\* the files for which get_generation_order was called
Ordered == {i \in 1..Len(Files) : Files[i].returned # None}

\* The first position of x in a sequence that holds it.
IndexOf(seq, x) == CHOOSE i \in 1..Len(seq) : seq[i] = x /\ \A j \in 1..(i - 1) : seq[j] # x

\* C13: on a tree without dependency cycles, get_generation_order, given the
\* located types of a program, returns Ok with an order that holds each of
\* these types exactly once, and in which every dependency that is among them
\* comes before the type that depends on it; dependencies that are not among
\* them do not appear.
C13_OrderIsTopological ==
    Generated =>
        \A i \in Ordered :
            LET order == Unwrap(Files[i].returned).order
            IN  /\ Unwrap(Files[i].returned).err = NoError
                /\ Range(order) = Files[i].located
                /\ Len(order) = Cardinality(Files[i].located)
                /\ \A k \in 1..Len(order) :
                       \A dep \in tree.nodes[order[k]].dependencies \cap Files[i].located :
                           IndexOf(order, dep) < k

\* The order of three types of one file, one of which depends on another that
\* depends on the third.
C13_Witness ==
    /\ Generated
    /\ \E i \in Ordered :
           /\ Cardinality(Files[i].located) = 3
           /\ \E x, y, z \in Files[i].located :
                  /\ y \in tree.nodes[x].dependencies
                  /\ z \in tree.nodes[y].dependencies

\* The schemas the program of a file declares.
SchemasOf(i) == DefinitionsOfKind(input[i][1], "Schema")

\* the node of a schema of the program of a file
NodeOf(i, schema_def) == tree.nodes[GetQualifiedName(schema_def.name, input[i][1])]

\* what was written, without the fields
ItemOf(emitted) == [item |-> emitted.item, name |-> emitted.name]

\* The struct of schema d is written to the file before the struct of schema s.
StructBefore(file, d, s) ==
    \E j, k \in 1..Len(file.content) :
        /\ j < k
        /\ ItemOf(file.content[j]) = [item |-> "struct", name |-> d.name]
        /\ ItemOf(file.content[k]) = [item |-> "struct", name |-> s.name]

\* C14 as stated: in every generated file the struct of a schema comes after
\* the structs of the schemas of the same file it depends on, whatever the
\* order of declaration, whatever the file is called, and whether the tree was
\* built with or without file paths.
C14_StructAfterItsDependencies ==
    Generated =>
        \A i \in 1..Len(Files) :
            \A s, d \in Range(SchemasOf(i)) :
                GetQualifiedName(d.name, input[i][1]) \in NodeOf(i, s).dependencies
                    => StructBefore(Files[i], d, s)

\* The tree was built without file paths from a file named m.glass that
\* declares C {b: B}, A {} and B {a: A} in this order, and the structs are
\* written in the order C, A, B.
C14_Witness ==
    /\ Generated
    /\ Len(Files) = 1
    /\ input[1][2] = None
    /\ Files[1].file_name = "m.glass"
    /\ input[1][1].definitions = <<SchemaDef("C", <<SchemaRef(None, "B")>>),
                                   SchemaDef("A", <<>>),
                                   SchemaDef("B", <<SchemaRef(None, "A")>>)>>
    /\ [j \in 1..Len(Files[1].content) |-> ItemOf(Files[1].content[j])]
           = <<[item |-> "struct", name |-> "C"],
               [item |-> "struct", name |-> "A"],
               [item |-> "struct", name |-> "B"]>>

----------------------------------------------------------------------------
(* Resolution of unqualified references *)

\* What an unqualified name in program i of the batch means before any import
\* is looked at: the type of the program's own package when the program has a
\* package and the package has the name, else the root-level type, else nothing.
LocalOrRoot(i, name) ==
    IF PackageName(input[i][1]) # ""
       /\ ContainsKey(tree.nodes, PackageName(input[i][1]) \o "." \o name)
    THEN Some(PackageName(input[i][1]) \o "." \o name)
    ELSE IF ContainsKey(tree.nodes, name) THEN Some(name)
    ELSE None

\* the types of the packages of the files program i imports that have the name
ImportedMeanings(i, name) ==
    {QualifiedName(package, name) : package \in ImportedPackagesDefining(input, i, name)}

\* The names the references of the definition at a place may resolve to: a
\* qualified one to what it spells, an unqualified one to its local or root
\* meaning, and to a type of an imported file only without such a meaning.
Meanings(pl) ==
    UNION {IF IsSome(schema_ref.package) THEN {Spelled(schema_ref)}
           ELSE IF IsSome(LocalOrRoot(pl[1], schema_ref.name))
           THEN {Unwrap(LocalOrRoot(pl[1], schema_ref.name))}
           ELSE ImportedMeanings(pl[1], schema_ref.name)
           : schema_ref \in References(DefinitionAt(input, pl))}

\* the places of the schemas whose node holds their own definition
OwnNodes ==
    {pl \in TypePlaces(input) :
        /\ DefinitionAt(input, pl).kind = "Schema"
        /\ tree.nodes[QualifiedNameAt(input, pl)].definition = DefinitionAt(input, pl)}

\* C15: an unqualified name in a program of non-root package P resolves to
\* P.name when nodes has it, else to the bare name when nodes has it, and to a
\* type of an imported file only when nodes has neither; a program of the root
\* package starts at the bare name.
C15_LocalThenRootThenImports ==
    Succeeded =>
        \A pl \in OwnNodes :
            /\ tree.nodes[QualifiedNameAt(input, pl)].dependencies \subseteq Meanings(pl)
            /\ \A schema_ref \in References(DefinitionAt(input, pl)) :
                   ~IsSome(schema_ref.package) =>
                       IF IsSome(LocalOrRoot(pl[1], schema_ref.name))
                       THEN Unwrap(LocalOrRoot(pl[1], schema_ref.name))
                                \in tree.nodes[QualifiedNameAt(input, pl)].dependencies
                       ELSE ImportedMeanings(pl[1], schema_ref.name)
                                \cap tree.nodes[QualifiedNameAt(input, pl)].dependencies # {}

\* A program of package m that imports p1.glass refers to Foo; the batch
\* defines m.Foo, a root-level Foo and p1.Foo, and the reference is m.Foo.
C15_Witness ==
    /\ Succeeded
    /\ \E pl \in OwnNodes :
           /\ PackageName(input[pl[1]][1]) = "m"
           /\ References(DefinitionAt(input, pl)) = {SchemaRef(None, "Foo")}
           /\ {"m.Foo", "Foo", "p1.Foo"} \subseteq DOMAIN tree.nodes
           /\ "p1" \in ImportedPackagesDefining(input, pl[1], "Foo")
           /\ tree.nodes[QualifiedNameAt(input, pl)].dependencies = {"m.Foo"}

\* The reference at a place of a program ingested with a path is unqualified,
\* the batch defines the name neither in the program's package nor at the root
\* level, and an import of the program resolves to an ingested file whose
\* package defines it.
MeantByImport(rp) ==
    /\ IsSome(input[rp[1]][2])
    /\ ~IsSome(ReferenceAt(input, rp).package)
    /\ QualifiedName(PackageName(input[rp[1]][1]), ReferenceAt(input, rp).name)
           \notin Defined(input)
    /\ ReferenceAt(input, rp).name \notin Defined(input)
    /\ ImportedPackagesDefining(input, rp[1], ReferenceAt(input, rp).name) # {}

\* the TypeNotFound of an unqualified name and the names that were tried
NotFoundAmong(name, tried) == TypeNotFound(name \o " (tried: " \o Join(tried, ", ") \o ")")

\* C16 as stated: during construction with file paths an unqualified
\* reference that matches neither the current package nor the root package
\* resolves to the type of that name of a directly imported file, in whatever
\* form the import is written, when the import resolves to an ingested file
\* whose package has the name: it is never reported as not found, and after
\* success it is among the dependencies.
C16_ImportedWhateverTheForm ==
    Built =>
        \A rp \in ReferencePlaces(input) :
            MeantByImport(rp) =>
                IF Succeeded
                THEN (tree.nodes[QualifiedNameAt(input, rp)].definition
                          = DefinitionAt(input, rp))
                     => ImportedMeanings(rp[1], ReferenceAt(input, rp).name)
                            \cap tree.nodes[QualifiedNameAt(input, rp)].dependencies # {}
                ELSE ~(/\ Failure.kind = "TypeNotFound"
                       /\ StartsWith(Failure.name,
                                     ReferenceAt(input, rp).name \o " (tried: "))

\* main.glass of package m imports "/p2.glass" and refers to Foo, which only
\* the package of p2.glass defines among the imports, and construction fails
\* with TypeNotFound after trying m.Foo and Foo.
C16_Witness ==
    /\ Built
    /\ Failure = NotFoundAmong("Foo", <<"m.Foo", "Foo">>)
    /\ \E rp \in ReferencePlaces(input) :
           /\ MeantByImport(rp)
           /\ ReferenceAt(input, rp) = SchemaRef(None, "Foo")
           /\ input[rp[1]][1].imports = <<Import("/p2.glass")>>
           /\ ImportedPackagesDefining(input, rp[1], "Foo") = {"p2"}

----------------------------------------------------------------------------
(* The files of the types *)

\* the names no program of the model's batches defines
Undefined == {"p.Missing", "Missing", "zz.T"}

\* C17 as stated: after from_programs_with_paths succeeds on a batch that
\* defines no qualified name twice, for every program ingested with a file
\* path F and every schema or enum q it defines, file_to_types[F] holds q and
\* find_file_for_type(q) is F, also when several files declare one package;
\* find_file_for_type is None for a name no file defines.
C17_EveryTypeHasItsFile ==
    (Succeeded /\ ~HasDuplicate(input)) =>
        /\ \A pl \in TypePlaces(input) :
               IsSome(input[pl[1]][2]) =>
                   /\ ContainsKey(tree.file_to_types, Unwrap(input[pl[1]][2]))
                   /\ Contains(tree.file_to_types[Unwrap(input[pl[1]][2])],
                               QualifiedNameAt(input, pl))
                   /\ FindFileForType(tree, QualifiedNameAt(input, pl))
                          = {input[pl[1]][2]}
        /\ \A name \in Undefined : FindFileForType(tree, name) = {None}

\* a.glass and b.glass of package p define one type each, A and B; the types
\* of a.glass are those of b.glass, b.glass has no types, and no file is
\* found for p.A.
C17_Witness ==
    /\ Succeeded
    /\ ~HasDuplicate(input)
    /\ Len(input) = 2
    /\ input[1][2] = Some("a.glass") /\ input[2][2] = Some("b.glass")
    /\ Defined(input) = {"p.A", "p.B"}
    /\ tree.file_to_types = [file_path \in {"a.glass"} |-> <<"p.B">>]
    /\ FindFileForType(tree, "p.A") = {None}
    /\ FindFileForType(tree, "p.B") = {Some("a.glass")}

----------------------------------------------------------------------------
(* The queries *)

\* A tree a caller holds: one a constructor returned, or one that
\* add_program_with_path was called on.
Held == Succeeded \/ added # <<>>

\* The types from which dependencies lead to the name.
DependOn(t, name) ==
    {a \in DOMAIN t.nodes : name \in TransitiveClosure(DepGraph(t), a)}

\* C18: on every tree, with or without dependency cycles,
\* get_all_affected_types(name) returns name and the types that depend on it
\* directly or through a chain of dependencies, and nothing else.
C18_AffectedAreTheDependents ==
    (Held /\ Unqueried) =>
        \A name \in DOMAIN tree.nodes \cup Undefined :
            GetAllAffectedTypes(tree, name) = {{name} \cup DependOn(tree, name)}

\* x depends on y and y on z: a change of z affects the three, a change of y
\* does not affect z.
C18_Witness ==
    /\ Held
    /\ \E x, y, z \in DOMAIN tree.nodes :
           /\ x # y /\ y # z /\ x # z
           /\ y \in tree.nodes[x].dependencies
           /\ tree.nodes[y].dependencies = {z}
           /\ tree.nodes[z].dependencies = {}
           /\ GetAllAffectedTypes(tree, z) = {{x, y, z}}
           /\ GetAllAffectedTypes(tree, y) = {{x, y}}

\* The programs the tree was given, each with the path it was given under.
Ingested ==
    IF added # <<>>
    THEN [i \in 1..Len(added) |-> <<added[i].program, Some(added[i].file_path)>>]
    ELSE input

\* the programs that were given with a path
WithPath == {i \in 1..Len(Ingested) : IsSome(Ingested[i][2])}

\* The packages of the ingested files that an import statement of program i
\* resolves to.
DirectlyImportedPackages(i) ==
    {PackageName(Ingested[j][1]) :
        j \in {j \in WithPath :
                  \E k \in 1..Len(Ingested[i][1].imports) :
                      Ingested[j][2] = Some(ResolveImportPath(Unwrap(Ingested[i][2]),
                                                              Ingested[i][1].imports[k].path))}}

\* the types of the own package of program i and of the packages it imports
\* directly
OwnAndImported(i) ==
    Bind({PackageName(Ingested[i][1])} \cup DirectlyImportedPackages(i),
         LAMBDA packages :
             {QualifiedNameAt(Ingested, pl) :
                  pl \in {pl \in TypePlaces(Ingested) :
                             PackageName(Ingested[pl[1]][1]) \in packages}}
                 \cap DOMAIN tree.nodes)

\* paths under which the model ingests no file
NotIngested == {"x.glass", "nofile.glass"}

----------------------------------------------------------------------------
(* Construction and the import graph *)

\* No node of the graph reaches itself.
Acyclic(g) == \A n \in DOMAIN g : n \notin TransitiveClosure(g, n)

\* some import of the tree leads to no ingested file
HasMissingImport(t) == \E f \in DOMAIN t.import_graph : MissingEdges(t, f) # {}

\* some files of the tree import each other in a cycle
HasImportCycle(t) == ~Acyclic(ImportGraph(t))

\* C21: from_programs_with_paths does not fail because of the import graph: a
\* batch whose references all resolve and whose dependencies are acyclic is
\* constructed, with imports that lead to no ingested file and with files that
\* import each other in a cycle; the constructor's errors are TypeNotFound and
\* CircularDependency only, and it is validate_imports, called on the tree,
\* that reports a missing import or an import cycle.
C21_ImportsDoNotFailConstruction ==
    Built =>
        /\ Failure.kind \in {"None", "TypeNotFound", "CircularDependency"}
        /\ Bind(SecondPass(input),
                LAMBDA second :
                    (second.err = NoError /\ Acyclic(DepGraph(second.tree)))
                        => Succeeded)
        /\ (Succeeded /\ imports_result # None) =>
               (Unwrap(imports_result) # <<>>
                    <=> HasMissingImport(tree) \/ HasImportCycle(tree))

\* A batch whose files import each other in a cycle and import a file that
\* was not ingested was constructed, and validate_imports returned an error.
C21_Witness ==
    /\ Succeeded
    /\ added = <<>>
    /\ HasMissingImport(tree)
    /\ HasImportCycle(tree)
    /\ imports_result # None
    /\ Unwrap(imports_result) # <<>>

----------------------------------------------------------------------------
(* Validation of the references of a program *)

RECURSIVE LeavesOf(_)
\* The types under the wrappers of the fields of the schemas of a sequence of
\* definitions, in the order of the definitions and of their fields.
LeavesOf(definitions) ==
    IF Len(definitions) = 0 THEN <<>>
    ELSE (IF definitions[1].kind = "Schema"
          THEN [k \in 1..Len(definitions[1].fields) |-> Leaf(definitions[1].fields[k])]
          ELSE <<>>)
         \o LeavesOf(Tail(definitions))

\* What the reference of program i is to be answered with, given the types
\* reachable from the file of the program: NoError, TypeNotAccessible with
\* the type and the file, or a TypeNotFound.
Answer(i, schema_ref, reachable) ==
    IF IsSome(schema_ref.package)
    THEN IF Spelled(schema_ref) \notin DOMAIN tree.nodes THEN TypeNotFound("")
         ELSE IF Spelled(schema_ref) \in reachable THEN NoError
         ELSE TypeNotAccessible(Spelled(schema_ref), Unwrap(Ingested[i][2]))
    ELSE IF PackageName(Ingested[i][1]) # ""
            /\ QualifiedName(PackageName(Ingested[i][1]), schema_ref.name)
                   \in DOMAIN tree.nodes
    THEN NoError
    ELSE IF schema_ref.name \in DOMAIN tree.nodes
    THEN IF schema_ref.name \in reachable THEN NoError
         ELSE TypeNotAccessible(schema_ref.name, Unwrap(Ingested[i][2]))
    ELSE IF \E package \in DirectlyImportedPackages(i) :
                QualifiedName(package, schema_ref.name) \in DOMAIN tree.nodes
    THEN NoError
    ELSE TypeNotFound("")

\* the answers that are errors, in the order of the references
Answers(i) ==
    Bind(OwnAndImported(i),
         LAMBDA reachable :
             SelectSeq([k \in 1..Len(LeavesOf(Ingested[i][1].definitions)) |->
                           IF LeavesOf(Ingested[i][1].definitions)[k].kind = "SchemaRef"
                           THEN Answer(i, LeavesOf(Ingested[i][1].definitions)[k], reachable)
                           ELSE NoError],
                       LAMBDA answer : answer # NoError))

\* The error is the answer; of a TypeNotFound only the kind is compared.
Answered(error, answer) ==
    IF answer.kind = "TypeNotFound" THEN error.kind = "TypeNotFound" ELSE error = answer

\* C22: validate_type_references, called with a program of tree.programs that
\* was ingested with a file path, returns one TypeNotAccessible, with the type
\* and the file, for each field whose reference resolves to a type that is not
\* among the reachable types of the file, in the order of the fields, and
\* Ok(()) exactly when every reference resolves to a reachable type.
C22_UnreachableReferencesAreReported ==
    Held =>
        \A i \in WithPath :
            Bind(ValidateTypeReferences(tree, tree.programs[i].program, i),
                 LAMBDA errors :
                     Bind(Answers(i),
                          LAMBDA answers :
                              /\ Len(errors) = Len(answers)
                              /\ \A k \in 1..Len(errors) :
                                     Answered(errors[k], answers[k])))

\* main.glass of package m, which imports p2.glass only, refers to p1.Foo:
\* the tree was constructed and validate_type_references returns the one
\* error TypeNotAccessible for p1.Foo.
C22_Witness ==
    /\ Succeeded
    /\ \E i \in WithPath :
           /\ Ingested[i][2] = Some("main.glass")
           /\ Ingested[i][1].imports = <<Import("p2.glass")>>
           /\ "p1.Foo" \in DOMAIN tree.nodes
           /\ ValidateTypeReferences(tree, tree.programs[i].program, i)
                  = <<TypeNotAccessible("p1.Foo", "main.glass")>>

----------------------------------------------------------------------------
(* The paths of the import graph *)

RECURSIVE Split(_, _)
\* The parts of s between the characters c.
Split(s, c) ==
    IF Positions(s, c) = {} THEN <<s>>
    ELSE Bind(CHOOSE i \in Positions(s, c) : \A j \in Positions(s, c) : i <= j,
              LAMBDA i : <<SubSeq(s, 1, i - 1)>> \o Split(SubSeq(s, i + 1, Len(s)), c))

RECURSIVE Walk(_, _)
\* The directory reached from the directory at, given as its components, by
\* the steps: "." stays, ".." goes up, a name goes down.
Walk(at, steps) ==
    IF Len(steps) = 0 THEN at
    ELSE IF steps[1] = "." THEN Walk(at, Tail(steps))
    ELSE IF steps[1] = ".." /\ Len(at) > 0
    THEN Walk(SubSeq(at, 1, Len(at) - 1), Tail(steps))
    ELSE Walk(Append(at, steps[1]), Tail(steps))

\* the components of the directory of a file path
DirectoryOf(file_path) ==
    SubSeq(Split(file_path, "/"), 1, Len(Split(file_path, "/")) - 1)

\* The file an import statement of the importing file denotes: for "./" and
\* "../" the path from the directory of the importing file, without "." and
\* ".." left in it; for a leading "/" the rest; else the import as written.
Denoted(importing_file, import_path) ==
    IF StartsWith(import_path, "/") THEN SubSeq(import_path, 2, Len(import_path))
    ELSE IF StartsWith(import_path, "./") \/ StartsWith(import_path, "../")
    THEN Join(Walk(DirectoryOf(importing_file), Split(import_path, "/")), "/")
    ELSE import_path

\* C23 as stated: the path recorded in import_graph for an import statement
\* is the key of the file the statement denotes: for an import that begins
\* with "./" or "../" the path relative to the directory of the importing
\* file ("./b.glass" from dir/a.glass is dir/b.glass, "../c.glass" from
\* dir/sub/a.glass is dir/c.glass), for a leading "/" the path without the
\* slash, for any other import the import itself.
C23_RecordedPathIsTheKey ==
    Held =>
        \A i \in WithPath :
            tree.import_graph[Unwrap(Ingested[i][2])]
                = [k \in 1..Len(Ingested[i][1].imports) |->
                       Denoted(Unwrap(Ingested[i][2]), Ingested[i][1].imports[k].path)]

\* dir/a.glass imports "./b.glass", dir/b.glass was ingested, and the import
\* graph holds dir/./b.glass, which is the key of no file.
C23_Witness ==
    /\ Succeeded
    /\ {"dir/a.glass", "dir/b.glass"} \subseteq DOMAIN tree.file_to_package
    /\ tree.programs[1].program.imports = <<Import("./b.glass")>>
    /\ Denoted("dir/a.glass", "./b.glass") = "dir/b.glass"
    /\ tree.import_graph["dir/a.glass"] = <<"dir/./b.glass">>
    /\ "dir/./b.glass" \notin DOMAIN tree.file_to_package

----------------------------------------------------------------------------
(* The order of the batch *)

\* The batch in the order given by a sequence of its positions.
Reordered(batch, order) == [k \in 1..Len(order) |-> batch[order[k]]]

\* What the constructor can return for a batch, as far as the order of the
\* batch is to leave it alone: whether it is Ok, and the nodes with their
\* dependency sets.
Constructed(batch) ==
    {[ok |-> returned.err = NoError, nodes |-> returned.tree.nodes]
     : returned \in FromProgramsWithPaths(batch)}

\* C24: for a batch in which no two definitions have the same qualified name
\* the constructor returns the same for every order of the batch: Ok for one
\* order exactly when Ok for all, and then the same nodes with the same
\* dependency sets; a reference to a type of a program later in the batch
\* resolves.
C24_OrderOfTheBatchIsImmaterial ==
    (JustBuilt /\ ~HasDuplicate(input)) =>
        Bind(Constructed(input),
             LAMBDA constructed :
                 /\ Cardinality(constructed) = 1
                 /\ \A order \in Orders(1..Len(input)) :
                        Constructed(Reordered(input, order)) = constructed)

\* A tree was returned for a batch of two programs, in which a schema of the
\* first program depends on a type of the second.
C24_Witness ==
    /\ JustBuilt
    /\ Succeeded
    /\ ~HasDuplicate(input)
    /\ Len(input) = 2
    /\ \E pl, other \in TypePlaces(input) :
           /\ pl[1] = 1
           /\ other[1] = 2
           /\ QualifiedNameAt(input, other)
                  \in tree.nodes[QualifiedNameAt(input, pl)].dependencies

----------------------------------------------------------------------------
(* The keys of nodes *)

\* The name under which a definition of a program is to be found: package.Name
\* for a program with a package, Name for one without.
NameInPackage(program, name) ==
    IF IsSome(program.package)
    THEN Join(Unwrap(program.package), ".") \o "." \o name
    ELSE name

\* the names of the definitions of the batch that are of one of the kinds
NamesOfKinds(batch, kinds) ==
    UNION {{NameInPackage(batch[i][1], batch[i][1].definitions[j].name) :
                j \in {j \in 1..Len(batch[i][1].definitions) :
                           batch[i][1].definitions[j].kind \in kinds}}
           : i \in 1..Len(batch)}

\* C25: after a successful construction the keys of nodes are the qualified
\* names of the schemas and enums of the programs of the batch, package.Name
\* with a package and Name without; every node has its key as qualified_name;
\* a service makes no node.
C25_NodesAreTheSchemasAndEnums ==
    Succeeded =>
        /\ DOMAIN tree.nodes = NamesOfKinds(input, {"Schema", "Enum"})
        /\ \A q \in DOMAIN tree.nodes : tree.nodes[q].qualified_name = q
        /\ \A q \in DOMAIN tree.nodes : tree.nodes[q].definition.kind # "Service"
        /\ (NamesOfKinds(input, {"Service"}) \ NamesOfKinds(input, {"Schema", "Enum"}))
               \cap DOMAIN tree.nodes = {}

\* A tree was returned for a batch with a root-level schema, an enum of a
\* package and a service: Foo and p2.Bar are nodes, m.Svc is not.
C25_Witness ==
    /\ Succeeded
    /\ {"Foo", "p2.Bar", "m.Main"} \subseteq DOMAIN tree.nodes
    /\ tree.nodes["p2.Bar"].definition.kind = "Enum"
    /\ "m.Svc" \in NamesOfKinds(input, {"Service"})
    /\ "m.Svc" \notin DOMAIN tree.nodes

----------------------------------------------------------------------------
(* No cycle is reported where there is none *)

\* g has a node from which another is reached along two paths
HasDiamond(g) ==
    \E n \in DOMAIN g : \E b \in g[n] : \E c \in g[n] \ {b} :
        b # n /\ c # n /\ (g[b] \cap g[c]) \ {n, b, c} # {}

\* C26: the constructor returns CircularDependency only for a batch whose
\* resolved dependency graph has a cycle; when that graph has none, diamonds
\* included, validate_no_cycles returns Ok in every order of the keys of nodes
\* and of the dependency sets, and the constructor returns Ok.
C26_CycleReportedOnlyWhereThereIsOne ==
    (Built /\ Unqueried) =>
        Bind(SecondPass(input),
             LAMBDA second :
                 second.err = NoError =>
                     /\ Failure.kind = "CircularDependency"
                            => ~Acyclic(DepGraph(second.tree))
                     /\ Acyclic(DepGraph(second.tree))
                            => /\ ValidateNoCycles(second.tree) = {NoError}
                               /\ Succeeded)

\* A batch with the diamond of A, B, C and D was constructed.
C26_Witness ==
    /\ Succeeded
    /\ Resolves
    /\ HasDiamond(ResolvedGraph)
    /\ Cardinality(DOMAIN ResolvedGraph) = 4

----------------------------------------------------------------------------
(* Trees built by add_program_with_path *)

\* the tree as the i-th call of add_program_with_path left it
AfterCall(i) == IF i < Len(added) THEN added[i + 1].before ELSE tree

\* C27: a call of add_program_with_path that returns an error leaves the tree
\* as it was before the call: programs, file_to_package, package_to_programs,
\* import_graph, nodes and file_to_types.
C27_FailedAddLeavesTheTree ==
    \A i \in 1..Len(added) :
        added[i].err # NoError => AfterCall(i) = added[i].before

\* A call returned TypeNotFound and the tree answers queries about the type
\* of the program that was not added.
C27_Witness ==
    /\ added # <<>>
    /\ added[Len(added)].err.kind = "TypeNotFound"
    /\ GetDependencies(added[Len(added)].before, "p.A") = None
    /\ GetDependencies(tree, "p.A") # None
    /\ Len(tree.programs) = Len(added[Len(added)].before.programs) + 1

\* every call of add_program_with_path so far returned Ok
AllAdded == added # <<>> /\ \A i \in 1..Len(added) : added[i].err = NoError

\* C28: after calls of add_program_with_path that all returned Ok on a tree
\* made by TypeTree::new, no type of nodes is in the transitive closure of its
\* own dependencies.
C28_AddedTreeIsAcyclic ==
    AllAdded => Acyclic(DepGraph(tree))

\* Every call returned Ok and a type of the tree depends on itself.
C28_Witness ==
    /\ AllAdded
    /\ \E n \in DOMAIN tree.nodes : n \in TransitiveClosure(DepGraph(tree), n)

----------------------------------------------------------------------------
(* The Rust paths of the fields *)

\* the programs of the batch that define the type of a qualified name
DefinersOf(qualified_name) ==
    {pl[1] : pl \in {other \in TypePlaces(input) :
                         QualifiedNameAt(input, other) = qualified_name}}

\* The module path of a type of the file generated for program j of the batch.
ModulePath(j, type_name) ==
    "crate::"
    \o (IF IsSome(input[j][1].package)
        THEN Join(Unwrap(input[j][1].package), "::") \o "::" ELSE "")
    \o StripSuffixOrSelf(Files[j].file_name, ".glass") \o "::" \o type_name

RECURSIVE PathsOf(_, _)
\* The texts that name the type of a field of program i by the module path of
\* a file that defines the type the tree resolved the reference to.
PathsOf(i, type_value) ==
    IF type_value.kind = "Primitive" THEN {ConvertPrimitiveToRust}
    ELSE IF type_value.kind = "Option"
    THEN {"Option<" \o inner \o ">" : inner \in PathsOf(i, type_value.inner)}
    ELSE IF type_value.kind = "Vec"
    THEN {"Vec<" \o inner \o ">" : inner \in PathsOf(i, type_value.inner)}
    ELSE {ModulePath(j, type_value.name) :
              j \in DefinersOf(ResolveSchemaReference(tree, type_value, input[i][1],
                                                      Elsewhere).name)}

\* C29: in every generated file the type written for a field that refers to
\* a type T is crate::<package segments>::<stem of the file that defines T>::T,
\* crate::<stem>::T at the root, whether the reference is qualified or not and
\* whether or not T is defined in the file of the field.
C29_FieldPathIsTheModulePath ==
    Generated =>
        \A i \in 1..Len(Files) :
            \A e \in Range(Files[i].content) :
                e.item = "struct" =>
                    \E s \in Range(SchemasOf(i)) :
                        /\ s.name = e.name
                        /\ Len(s.fields) = Len(e.fields)
                        /\ \A k \in 1..Len(s.fields) :
                               e.fields[k] \in PathsOf(i, s.fields[k])

\* p1.Foo is defined in p1.glass alone, whose module is crate::p1::p1, and a
\* field of another file that refers to it is written crate::p1::foo::Foo.
C29_Witness ==
    /\ Generated
    /\ \E i \in 1..Len(Files) :
           /\ DefinersOf("p1.Foo") = {i}
           /\ Files[i].file_name = "p1.glass"
           /\ ModulePath(i, "Foo") = "crate::p1::p1::Foo"
           /\ \E j \in 1..Len(Files) : \E e \in Range(Files[j].content) :
                  /\ j # i
                  /\ e.item = "struct"
                  /\ e.fields = <<"crate::p1::foo::Foo">>

----------------------------------------------------------------------------
(* The framing of a stream *)

\* C30: the read_message calls on a stream return the messages written to it
\* with write_message's framing, whole and in the order written, and each
\* call takes from the stream the eight bytes of the length and the encoded
\* message, however the bytes come in reads.
C30_EachCallTakesItsFrame ==
    \A i \in 1..Len(received) :
        /\ received[i].message = Some(sent[i])
        /\ received[i].consumed = MessageLenBufferSize + Len(IntoWriter(sent[i]))

\* Two messages were written back to back; the first call returned the first
\* message and took bytes of the second frame, and the second call reads a
\* length that is not the length of the second message.
C30_Witness ==
    /\ Len(sent) = 2
    /\ Len(received) = 1
    /\ received[1].message = Some(sent[1])
    /\ received[1].consumed > MessageLenBufferSize + received[1].message_len
    /\ reading.pc = "payload"
    /\ reading.message_len # Len(IntoWriter(sent[2]))

====
